---- MODULE Spec2Model ----
(***************************************************************************)
(* RustFtpFS: the FUSE translation layer (src/src/filesystem.rs) over the  *)
(* FTP connection wrapper (src/src/ftp.rs).                                *)
(*                                                                         *)
(* Strings (basenames, remote paths) are sequences of one-character        *)
(* strings, so that format!, starts_with, ends_with, contains and          *)
(* to_string are modelled by what they do to the characters.               *)
(* Instants are modelled by the age of each cache entry in seconds; the    *)
(* code only ever compares elapsed() with a TTL.                           *)
(* fuser's session loop hands the requests to the Filesystem one at a      *)
(* time (&mut self), so each handler is one atomic action.                 *)
(***************************************************************************)
EXTENDS Integers, Sequences, FiniteSets, TLC

(***************************************************************************)
(* Bounds of the model                                                     *)
(***************************************************************************)
\* the largest identifier allocate_inode may hand out
MaxIno == 3
\* the largest handle allocate_fh may hand out
MaxFh == 1
\* the longest write buffer (offset + data.len())
MaxLen == 2
\* the deepest remote path, in components
MaxDepth == 1
\* the deepest remote path where directories hold entries of their own
MaxDeep == 2
\* how many requests may meet a transport failure
MaxFaulty == 1
\* how many times DIR_CACHE_TTL seconds may pass
MaxTicks == 2

(***************************************************************************)
(* Program constants                                                       *)
(***************************************************************************)
ROOT_INODE == 1
DIR_CACHE_TTL == 60
ATTR_CACHE_TTL == 120
\* the size a UNIX listing shows for a directory
DirEntrySize == 4096

OK == "OK"
ENOENT == "ENOENT"
EIO == "EIO"
EISDIR == "EISDIR"
ENOTDIR == "ENOTDIR"
EOPNOTSUPP == "EOPNOTSUPP"

Directory == "Directory"
RegularFile == "RegularFile"

(***************************************************************************)
(* Strings                                                                 *)
(***************************************************************************)
Slash == <<"/">>

StartsWith(s, p) ==
    /\ Len(p) <= Len(s)
    /\ SubSeq(s, 1, Len(p)) = p

EndsWith(s, p) ==
    /\ Len(p) <= Len(s)
    /\ SubSeq(s, Len(s) - Len(p) + 1, Len(s)) = p

Contains(s, p) ==
    \E i \in 0..(Len(s) - Len(p)) : SubSeq(s, i + 1, i + Len(p)) = p

Digits == <<"0", "1", "2", "3", "4", "5", "6", "7", "8", "9">>

RECURSIVE to_string(_)
\* u64::to_string: the decimal digits
to_string(n) ==
    IF n < 10 THEN <<Digits[n + 1]>>
    ELSE to_string(n \div 10) \o <<Digits[(n % 10) + 1]>>

(***************************************************************************)
(* Name filter                                                             *)
(***************************************************************************)
TEMP_FILE_PATTERNS ==
    { <<".", "a", "t", "t", "a", "c", "h", "_", "p", "i", "d">>,
      <<".", "s", "w", "p">>,
      <<".", "s", "w", "o">>,
      <<".", "s", "w", "n">>,
      <<"~">>,
      <<".", "t", "m", "p">>,
      <<".", "t", "e", "m", "p">>,
      <<".", "g", "i", "t">>,
      <<".", "s", "v", "n">>,
      <<".", "h", "g">>,
      <<".", "v", "s", "c", "o", "d", "e">>,
      <<".", "i", "d", "e", "a">>,
      <<"_", "_", "p", "y", "c", "a", "c", "h", "e", "_", "_">>,
      <<".", "p", "y", "c">>,
      <<".", "p", "y", "o">>,
      <<".", "D", "S", "_", "S", "t", "o", "r", "e">>,
      <<".", "d", "i", "r", "e", "c", "t", "o", "r", "y">>,
      <<".", "n", "f", "s">>,
      <<".", "l", "o", "c", "k">>,
      <<".", "p", "i", "d">> }

is_temp_file(name) ==
    \/ /\ StartsWith(name, <<".">>)
       /\ \/ StartsWith(name, <<".", "a", "t", "t", "a", "c", "h", "_", "p", "i", "d">>)
          \/ EndsWith(name, <<"~">>)
          \/ \E pattern \in TEMP_FILE_PATTERNS : Contains(name, pattern)
    \/ EndsWith(name, <<"~">>)

(***************************************************************************)
(* The basenames the requests and the server use, in listing order         *)
(***************************************************************************)
NameOrder == << <<"a">>, <<"a", "~">>, <<"b">> >>

Names == { NameOrder[i] : i \in 1..Len(NameOrder) }

(***************************************************************************)
(* Remote paths                                                            *)
(***************************************************************************)
\* format!("/{}", name) under the root, format!("{}/{}", parent, name) below
ChildPath(parent_path, name) ==
    IF parent_path = Slash THEN <<"/">> \o name
    ELSE parent_path \o <<"/">> \o name

\* parse_list_line: the entry's path from the connection's current_dir
ListPath(current_dir, name) ==
    IF EndsWith(current_dir, <<"/">>) THEN current_dir \o name
    ELSE current_dir \o <<"/">> \o name

\* the position of the last '/' of an absolute path
LastSlash(path) ==
    CHOOSE i \in 1..Len(path) :
        /\ path[i] = "/"
        /\ \A j \in (i + 1)..Len(path) : path[j] # "/"

\* Path::file_name, falling back to the whole path
FileName(path) ==
    IF path = Slash \/ EndsWith(path, <<"/", ".", ".">>) THEN path
    ELSE SubSeq(path, LastSlash(path) + 1, Len(path))

\* the directory a path lies in, as the server resolves it
DirOf(path) ==
    IF LastSlash(path) = 1 THEN Slash
    ELSE SubSeq(path, 1, LastSlash(path) - 1)

Depth(path) ==
    IF path = Slash THEN 0
    ELSE Cardinality({ i \in 1..Len(path) : path[i] = "/" })

\* p lies strictly below directory d
Below(p, d) ==
    IF d = Slash THEN p # Slash
    ELSE StartsWith(p, d \o <<"/">>)

(***************************************************************************)
(* The FTP server behind FtpConnection                                     *)
(*                                                                         *)
(* The server's tree is a function from absolute path to                   *)
(* [is_dir, data]; "/" is always a directory.  A state record s carries    *)
(* the tables of FtpFs, the server tree (s.ftp) and the remote calls the   *)
(* running handler has made so far (s.calls).  Every FtpConnection method  *)
(* takes a flag net: FALSE is a transport failure of that command.         *)
(* s.held is the set of table mutexes whose guard is alive at this point   *)
(* of the handler; each call is logged with the guards alive around it,    *)
(* the guard of ftp_conn it is made through among them.                    *)
(***************************************************************************)
\* a change of directory to a path whose last component is ".." ends in
\* the directory above, and in "/" at the root
Resolve(path) ==
    IF ~EndsWith(path, <<"/", ".", ".">>) THEN path
    ELSE IF Len(path) = 3 THEN Slash
    ELSE DirOf(SubSeq(path, 1, Len(path) - 3))

IsRemoteDir(tree, path) == path \in DOMAIN tree /\ tree[path].is_dir

IsRemoteFile(tree, path) == path \in DOMAIN tree /\ ~tree[path].is_dir

RemoteFile(data) == [is_dir |-> FALSE, data |-> data]

RemoteDir == [is_dir |-> TRUE, data |-> <<>>]

Without(f, keys) == [k \in (DOMAIN f) \ keys |-> f[k]]

Call(fn, path, arg, ok, held) ==
    [fn |-> fn, path |-> path, arg |-> arg, ok |-> ok, held |-> held]

Logged(s, fn, path, arg, ok) ==
    [s EXCEPT !.calls = Append(@, Call(fn, path, arg, ok, s.held \cup {"ftp_conn"}))]

\* a MutexGuard comes alive: the temporary of an if let scrutinee lives to
\* the end of the if let block
Guard(s, mutex) == [s EXCEPT !.held = @ \cup {mutex}]

\* the guard is dropped at the end of its block, or on return
Drop(s, mutex) == [s EXCEPT !.held = @ \ {mutex}]

FilePermString == <<"-", "r", "w", "-", "r", "-", "-", "r", "-", "-">>

DirPermString == <<"d", "r", "w", "x", "r", "-", "x", "r", "-", "x">>

Bit(perm_str, n, c, value) == IF perm_str[n + 1] = c THEN value ELSE 0

\* a parser that reads the other-execute bit from the owner's: what C16
\* must tell from parse_permissions
parse_permissions_owner_x(perm_str) ==
    IF Len(perm_str) >= 10
    THEN Bit(perm_str, 1, "r", 256) + Bit(perm_str, 2, "w", 128) + Bit(perm_str, 3, "x", 64)
         + Bit(perm_str, 4, "r", 32) + Bit(perm_str, 5, "w", 16) + Bit(perm_str, 6, "x", 8)
         + Bit(perm_str, 7, "r", 4) + Bit(perm_str, 8, "w", 2) + Bit(perm_str, 3, "x", 1)
         + (IF StartsWith(perm_str, <<"d">>) THEN 16384 ELSE 0)
    ELSE 0

\* the mode bits are disjoint, so |= is addition
parse_permissions(perm_str) ==
    IF Len(perm_str) >= 10
    THEN Bit(perm_str, 1, "r", 256) + Bit(perm_str, 2, "w", 128) + Bit(perm_str, 3, "x", 64)
         + Bit(perm_str, 4, "r", 32) + Bit(perm_str, 5, "w", 16) + Bit(perm_str, 6, "x", 8)
         + Bit(perm_str, 7, "r", 4) + Bit(perm_str, 8, "w", 2) + Bit(perm_str, 9, "x", 1)
         + (IF StartsWith(perm_str, <<"d">>) THEN 16384 ELSE 0)
    ELSE 0

\* the directory flag parse_permissions sets
S_IFDIR == 16384

\* the first field of an ls -l line for a mode: the type character, then
\* r, w, x or - for each of the nine permission bits, owner first
PermString(mode) ==
    << IF (mode \div S_IFDIR) % 2 = 1 THEN "d" ELSE "-" >>
    \o [ n \in 1..9 |->
           IF (mode \div (2 ^ (9 - n))) % 2 = 0 THEN "-"
           ELSE IF n % 3 = 1 THEN "r"
           ELSE IF n % 3 = 2 THEN "w"
           ELSE "x" ]

\* one line of the listing of current_dir, parsed
parse_list_line(tree, current_dir, name) ==
    LET e == tree[ChildPath(Resolve(current_dir), name)]
        perm_str == IF e.is_dir THEN DirPermString ELSE FilePermString
    IN  [ name |-> name,
          path |-> ListPath(current_dir, name),
          size |-> IF e.is_dir THEN DirEntrySize ELSE Len(e.data),
          is_dir |-> StartsWith(perm_str, <<"d">>),
          permissions |-> parse_permissions(perm_str) ]

\* the listing of a directory, in the server's order
Listing(tree, path) ==
    LET present == SelectSeq(NameOrder, LAMBDA n : ChildPath(Resolve(path), n) \in DOMAIN tree)
    IN  [ i \in 1..Len(present) |-> parse_list_line(tree, path, present[i]) ]

conn_reconnect(s, net) ==
    [ s |-> Logged(s, "reconnect", <<>>, <<>>, net), ok |-> net ]

conn_list_dir(s, path, net) ==
    LET ok == net /\ IsRemoteDir(s.ftp, Resolve(path))
    IN  [ s |-> Logged(s, "list_dir", path, <<>>, ok),
          ok |-> ok,
          files |-> IF ok THEN Listing(s.ftp, path) ELSE <<>> ]

conn_size(s, path, net) ==
    LET ok == net /\ IsRemoteFile(s.ftp, path)
    IN  [ s |-> Logged(s, "size", path, <<>>, ok),
          ok |-> ok,
          val |-> IF ok THEN Len(s.ftp[path].data) ELSE 0 ]

\* how the three commands of is_dir (pwd, cwd path, cwd back) can go
IsDirNet == {"ok", "err", "cwd_fails"}

\* pwd or the cwd back failing is an error; the cwd to the path failing,
\* for whatever reason, is Ok(false)
conn_is_dir(s, path, net) ==
    [ s |-> Logged(s, "is_dir", path, <<>>, net # "err"),
      ok |-> net # "err",
      val |-> net = "ok" /\ IsRemoteDir(s.ftp, Resolve(path)) ]

conn_exists(s, path, net_size, net_dir) ==
    LET z == conn_size(s, path, net_size)
    IN  IF z.ok THEN [ s |-> z.s, ok |-> TRUE, val |-> TRUE ]
        ELSE conn_is_dir(z.s, path, net_dir)

conn_retrieve(s, path, net) ==
    LET ok == net /\ IsRemoteFile(s.ftp, path)
    IN  [ s |-> Logged(s, "retrieve", path, <<>>, ok),
          ok |-> ok,
          data |-> IF ok THEN s.ftp[path].data ELSE <<>> ]

conn_store(s, path, data, net) ==
    LET ok == /\ net
              /\ path # Slash
              /\ IsRemoteDir(s.ftp, DirOf(path))
              /\ ~IsRemoteDir(s.ftp, path)
        t == IF ok THEN (path :> RemoteFile(data)) @@ s.ftp ELSE s.ftp
    IN  [ s |-> Logged([s EXCEPT !.ftp = t], "store", path, data, ok), ok |-> ok ]

conn_delete(s, path, net) ==
    LET ok == net /\ IsRemoteFile(s.ftp, path)
        t == IF ok THEN Without(s.ftp, {path}) ELSE s.ftp
    IN  [ s |-> Logged([s EXCEPT !.ftp = t], "delete", path, <<>>, ok), ok |-> ok ]

conn_mkdir(s, path, net) ==
    LET ok == /\ net
              /\ path \notin DOMAIN s.ftp
              /\ IsRemoteDir(s.ftp, DirOf(path))
        t == IF ok THEN (path :> RemoteDir) @@ s.ftp ELSE s.ftp
    IN  [ s |-> Logged([s EXCEPT !.ftp = t], "mkdir", path, <<>>, ok), ok |-> ok ]

\* only an empty directory can be removed
conn_rmdir(s, path, net) ==
    LET ok == /\ net
              /\ path # Slash
              /\ IsRemoteDir(s.ftp, path)
              /\ \A q \in DOMAIN s.ftp : ~Below(q, path)
        t == IF ok THEN Without(s.ftp, {path}) ELSE s.ftp
    IN  [ s |-> Logged([s EXCEPT !.ftp = t], "rmdir", path, <<>>, ok), ok |-> ok ]

\* RNFR/RNTO: the subtree moves; an existing file at the target is replaced
conn_rename(s, from, to, net) ==
    LET ok == /\ net
              /\ from # Slash /\ to # Slash /\ from # to
              /\ from \in DOMAIN s.ftp
              /\ IsRemoteDir(s.ftp, DirOf(to))
              /\ ~Below(to, from)
              /\ to \in DOMAIN s.ftp => (~s.ftp[to].is_dir /\ ~s.ftp[from].is_dir)
        moved == { q \in DOMAIN s.ftp : q = from \/ Below(q, from) }
        dest(q) == to \o SubSeq(q, Len(from) + 1, Len(q))
        kept == Without(s.ftp, moved \cup {to})
        t == IF ok
             THEN [ q \in (DOMAIN kept) \cup { dest(m) : m \in moved } |->
                      IF q \in DOMAIN kept THEN kept[q]
                      ELSE s.ftp[CHOOSE m \in moved : dest(m) = q] ]
             ELSE s.ftp
    IN  [ s |-> Logged([s EXCEPT !.ftp = t], "rename", from, to, ok), ok |-> ok ]

(***************************************************************************)
(* FtpFs: records                                                          *)
(***************************************************************************)
FileAttr(ino, size, blocks, kind, perm, nlink) ==
    [ino |-> ino, size |-> size, blocks |-> blocks, kind |-> kind, perm |-> perm, nlink |-> nlink]

\* Option<FileAttr>::None
NoAttr == FileAttr(0, 0, 0, "None", 0, 0)

Inode(ino, parent, name, attr, ftp_path) ==
    [ino |-> ino, parent |-> parent, name |-> name, attr |-> attr, ftp_path |-> ftp_path]

FtpFileInfo(name, path, size, is_dir, permissions) ==
    [name |-> name, path |-> path, size |-> size, is_dir |-> is_dir, permissions |-> permissions]

\* Option<WriteBuffer>: some = FALSE is None
NoWriteBuffer == [some |-> FALSE, data |-> <<>>, dirty |-> FALSE]

WriteBuffer(data, dirty) == [some |-> TRUE, data |-> data, dirty |-> dirty]

FileHandle(ino, write_buffer) == [ino |-> ino, write_buffer |-> write_buffer]

\* an entry that is stored DIR_CACHE_TTL seconds old: what C25 must tell
\* from DirCacheEntry
DirCacheEntryUnstamped(files) == [files |-> files, age |-> DIR_CACHE_TTL]

\* entry.timestamp.elapsed() is the entry's age
DirCacheEntry(files) == [files |-> files, age |-> 0]

AttrCacheEntry(attr) == [attr |-> attr, age |-> 0]

Put(f, k, v) == (k :> v) @@ f

\* what a handler hands back: the tables, the reply code and the reply's payload
Reply(s, code, attr, data, fh) ==
    [s |-> s, reply |-> code, attr |-> attr, data |-> data, fh |-> fh]

Error(s, code) == Reply(s, code, NoAttr, <<>>, 0)

(***************************************************************************)
(* FtpFs: helpers                                                          *)
(***************************************************************************)
root_attr == FileAttr(ROOT_INODE, 0, 0, Directory, 493, 2)

root_inode == Inode(ROOT_INODE, ROOT_INODE, Slash, root_attr, Slash)

\* an allocator that hands out the least identifier above the root's that
\* the inode table does not hold: what C17 must tell from allocate_inode
allocate_inode_reusing(s) ==
    LET ino == CHOOSE i \in 2..s.next_inode :
                   /\ i \notin DOMAIN s.inodes
                   /\ \A j \in 2..(i - 1) : j \in DOMAIN s.inodes
    IN  [ s |-> [s EXCEPT !.next_inode = IF ino = @ THEN @ + 1 ELSE @], ino |-> ino ]

allocate_inode(s) ==
    [ s |-> [s EXCEPT !.next_inode = @ + 1], ino |-> s.next_inode ]

allocate_fh(s) ==
    [ s |-> [s EXCEPT !.next_fh = @ + 1], fh |-> s.next_fh ]

\* a block count that rounds down: what C9 must tell from Blocks
BlocksRoundedDown(size) == size \div 512

Blocks(size) == (size + 511) \div 512

\* a materialization that never looks the path up and gives every caller
\* an identifier of its own: what C38 must tell from get_or_create_inode
get_or_create_inode_unchecked(s, parent, file_info) ==
    LET a == allocate_inode(s)
        attr == FileAttr(a.ino, file_info.size, Blocks(file_info.size),
                         IF file_info.is_dir THEN Directory ELSE RegularFile,
                         file_info.permissions % 512,
                         IF file_info.is_dir THEN 2 ELSE 1)
        inode == Inode(a.ino, parent, file_info.name, attr, file_info.path)
    IN  [ s |-> [a.s EXCEPT !.inodes = Put(@, a.ino, inode),
                            !.path_to_inode = Put(@, file_info.path, a.ino),
                            !.attr_cache = Put(@, a.ino, AttrCacheEntry(attr))],
          inode |-> inode ]

get_or_create_inode(s, parent, file_info) ==
    LET path == file_info.path
    IN  IF path \in DOMAIN s.path_to_inode /\ s.path_to_inode[path] \in DOMAIN s.inodes
        THEN [ s |-> s, inode |-> s.inodes[s.path_to_inode[path]] ]
        ELSE LET a == allocate_inode(s)
                 ino == a.ino
                 attr == FileAttr(ino, file_info.size, Blocks(file_info.size),
                                  IF file_info.is_dir THEN Directory ELSE RegularFile,
                                  file_info.permissions % 512,
                                  IF file_info.is_dir THEN 2 ELSE 1)
                 inode == Inode(ino, parent, file_info.name, attr, path)
             IN  [ s |-> [a.s EXCEPT !.inodes = Put(@, ino, inode),
                                     !.path_to_inode = Put(@, path, ino),
                                     !.attr_cache = Put(@, ino, AttrCacheEntry(attr))],
                   inode |-> inode ]

\* a cached listing that lists again whatever reconnect returned: what C23
\* must tell from list_ftp_directory_cached
list_ftp_directory_cached_retrying(s, path, net1, net_reconnect, net2) ==
    LET Second(again) == conn_list_dir(again.s, path, net2)
        Got(first) ==
            IF first.ok THEN first ELSE Second(conn_reconnect(first.s, net_reconnect))
        Stored(got) ==
            IF got.ok
            THEN [ s |-> [got.s EXCEPT !.dir_cache = Put(@, path, DirCacheEntry(got.files))],
                   ok |-> TRUE, files |-> got.files ]
            ELSE got
    IN  IF path \in DOMAIN s.dir_cache /\ s.dir_cache[path].age < DIR_CACHE_TTL
        THEN [ s |-> s, ok |-> TRUE, files |-> s.dir_cache[path].files ]
        ELSE Stored(Got(conn_list_dir(s, path, net1)))

list_ftp_directory_cached(s, path, net1, net_reconnect, net2) ==
    LET Second(again) ==
            IF ~again.ok THEN [s |-> again.s, ok |-> FALSE, files |-> <<>>]
            ELSE conn_list_dir(again.s, path, net2)
        Got(first) ==
            IF first.ok THEN first ELSE Second(conn_reconnect(first.s, net_reconnect))
        Stored(got) ==
            IF got.ok
            THEN [ s |-> [got.s EXCEPT !.dir_cache = Put(@, path, DirCacheEntry(got.files))],
                   ok |-> TRUE, files |-> got.files ]
            ELSE got
    IN  IF path \in DOMAIN s.dir_cache /\ s.dir_cache[path].age < DIR_CACHE_TTL
        THEN [ s |-> s, ok |-> TRUE, files |-> s.dir_cache[path].files ]
        ELSE Stored(Got(conn_list_dir(s, path, net1)))

invalidate_dir_cache(s, path) ==
    [s EXCEPT !.dir_cache = Without(@, {path})]

\* a cache that takes an entry for stale after DIR_CACHE_TTL: what C18
\* must tell from get_attr_cached
get_attr_cached_short(s, ino) ==
    IF ino \in DOMAIN s.attr_cache /\ s.attr_cache[ino].age < DIR_CACHE_TTL
    THEN s.attr_cache[ino].attr
    ELSE NoAttr

get_attr_cached(s, ino) ==
    IF ino \in DOMAIN s.attr_cache /\ s.attr_cache[ino].age < ATTR_CACHE_TTL
    THEN s.attr_cache[ino].attr
    ELSE NoAttr

update_attr_cache(s, ino, attr) ==
    [s EXCEPT !.attr_cache = Put(@, ino, AttrCacheEntry(attr))]

get_ftp_file_info(s, path, net_dir, net_size) ==
    LET Sized(z) ==
            [ s |-> z.s, ok |-> TRUE,
              info |-> FtpFileInfo(FileName(path), path, IF z.ok THEN z.val ELSE 0, FALSE, 420) ]
        Info(d) ==
            IF ~d.ok THEN [ s |-> d.s, ok |-> FALSE, info |-> FtpFileInfo(<<>>, path, 0, FALSE, 0) ]
            ELSE IF d.val
            THEN [ s |-> d.s, ok |-> TRUE, info |-> FtpFileInfo(FileName(path), path, 0, TRUE, 493) ]
            ELSE Sized(conn_size(d.s, path, net_size))
    IN  Info(conn_is_dir(s, path, net_dir))

\* a sync that sizes the attribute cache before it knows that the store
\* succeeded: what C27 must tell from sync_write_buffer
sync_write_buffer_sizing_first(s, fh, net) ==
    IF fh \in DOMAIN s.open_files
       /\ s.open_files[fh].write_buffer.some
       /\ s.open_files[fh].write_buffer.dirty
    THEN LET file_handle == s.open_files[fh]
             data == file_handle.write_buffer.data
         IN  IF file_handle.ino \notin DOMAIN s.inodes
             THEN [ s |-> s, ok |-> FALSE ]
             ELSE LET inode == s.inodes[file_handle.ino]
                      st == conn_store(Guard(s, "open_files"), inode.ftp_path, data, net)
                      cached == [st.s EXCEPT !.read_cache = Put(@, file_handle.ino, data)]
                      sized == IF file_handle.ino \in DOMAIN cached.attr_cache
                               THEN [cached EXCEPT
                                       !.attr_cache[file_handle.ino].attr.size = Len(data),
                                       !.attr_cache[file_handle.ino].attr.blocks = Blocks(Len(data))]
                               ELSE cached
                  IN  IF ~st.ok THEN [ s |-> Drop(sized, "open_files"), ok |-> FALSE ]
                      ELSE [ s |-> Drop(invalidate_dir_cache(sized, to_string(inode.parent)),
                                        "open_files"),
                             ok |-> TRUE ]
    ELSE [ s |-> s, ok |-> TRUE ]

sync_write_buffer(s, fh, net) ==
    IF fh \in DOMAIN s.open_files
       /\ s.open_files[fh].write_buffer.some
       /\ s.open_files[fh].write_buffer.dirty
    THEN LET file_handle == s.open_files[fh]
             data == file_handle.write_buffer.data
         IN  IF file_handle.ino \notin DOMAIN s.inodes
             THEN [ s |-> s, ok |-> FALSE ]
             ELSE LET inode == s.inodes[file_handle.ino]
                      st == conn_store(Guard(s, "open_files"), inode.ftp_path, data, net)
                      cached == [st.s EXCEPT !.read_cache = Put(@, file_handle.ino, data)]
                      sized == IF file_handle.ino \in DOMAIN cached.attr_cache
                               THEN [cached EXCEPT
                                       !.attr_cache[file_handle.ino].attr.size = Len(data),
                                       !.attr_cache[file_handle.ino].attr.blocks = Blocks(Len(data))]
                               ELSE cached
                  IN  IF ~st.ok THEN [ s |-> Drop(st.s, "open_files"), ok |-> FALSE ]
                      ELSE [ s |-> Drop(invalidate_dir_cache(sized, to_string(inode.parent)),
                                        "open_files"),
                             ok |-> TRUE ]
    ELSE [ s |-> s, ok |-> TRUE ]

load_file_data(s, ino, ftp_path, net) ==
    IF ino \in DOMAIN s.read_cache
    THEN [ s |-> s, ok |-> TRUE, data |-> s.read_cache[ino] ]
    ELSE LET r == conn_retrieve(s, ftp_path, net)
         IN  IF r.ok
             THEN [ s |-> [r.s EXCEPT !.read_cache = Put(@, ino, r.data)],
                    ok |-> TRUE, data |-> r.data ]
             ELSE [ s |-> r.s, ok |-> FALSE, data |-> <<>> ]

(***************************************************************************)
(* FtpFs: the Filesystem handlers                                          *)
(***************************************************************************)
Entry(s, attr) == Reply(s, OK, attr, <<>>, 0)

\* The clock is read twice: by get_attr_cached (elapsed() < ATTR_CACHE_TTL)
\* and then for should_update (elapsed() > ATTR_CACHE_TTL); later says that
\* time has passed between the two reads.  The guard of inodes taken by the
\* if let at line 473 lives to the end of its block, line 501.
getattr(s, ino, later, net_dir, net_size) ==
    IF get_attr_cached(s, ino) # NoAttr THEN Entry(s, get_attr_cached(s, ino))
    ELSE IF ino \notin DOMAIN s.inodes THEN Error(s, ENOENT)
    ELSE LET inode == s.inodes[ino]
             should_update ==
                 IF ino \in DOMAIN s.attr_cache
                 THEN \/ s.attr_cache[ino].age > ATTR_CACHE_TTL
                      \/ s.attr_cache[ino].age = ATTR_CACHE_TTL /\ later
                 ELSE TRUE
             Updated(s1, attr) == Entry(Drop(update_attr_cache(s1, ino, attr), "inodes"), attr)
             Refreshed(g) ==
                 IF g.ok THEN Updated(g.s, [inode.attr EXCEPT !.size = g.info.size])
                 ELSE Updated(g.s, inode.attr)
         IN  IF inode.attr.kind = RegularFile /\ should_update
             THEN Refreshed(get_ftp_file_info(Guard(s, "inodes"), inode.ftp_path,
                                              net_dir, net_size))
             ELSE Updated(s, inode.attr)

\* Option<u32> and Option<u64>: None is the empty sequence, Some(v) is << v >>.
\* mode as u16 keeps the low 16 bits.  The guard of inodes is held to the
\* end; no remote call is made.  uid and gid are not part of FileAttr here.
setattr(s, ino, mode, size) ==
    IF ino \notin DOMAIN s.inodes THEN Error(s, ENOENT)
    ELSE LET Set(attr) ==
                 Entry(update_attr_cache([s EXCEPT !.inodes[ino].attr = attr], ino, attr), attr)
         IN  Set([s.inodes[ino].attr EXCEPT
                    !.perm = IF mode # << >> THEN mode[1] % 65536 ELSE @,
                    !.size = IF size # << >> THEN size[1] ELSE @])

\* the first listing entry with the basename, as files.iter().find does
Find(files, name) ==
    LET hits == { i \in 1..Len(files) : files[i].name = name }
    IN  IF hits = {} THEN 0 ELSE CHOOSE i \in hits : \A j \in hits : i <= j

lookup(s, parent, name, net1, net_reconnect, net2, net_dir, net_size) ==
    IF is_temp_file(name) THEN Error(s, ENOENT)
    ELSE IF parent \notin DOMAIN s.inodes THEN Error(s, ENOENT)
    ELSE LET parent_inode == s.inodes[parent]
             ftp_path == ChildPath(parent_inode.ftp_path, name)
             Made(c) == Entry(c.s, c.inode.attr)
             Fallback(g) ==
                 IF g.ok THEN Made(get_or_create_inode(g.s, parent, g.info))
                 ELSE Error(g.s, ENOENT)
             Found(l, hit) ==
                 IF hit # 0 THEN Made(get_or_create_inode(l.s, parent, l.files[hit]))
                 ELSE Fallback(get_ftp_file_info(l.s, ftp_path, net_dir, net_size))
             Listed(l) == Found(l, IF l.ok THEN Find(l.files, name) ELSE 0)
         IN  IF name = <<".">> THEN Entry(s, parent_inode.attr)
             ELSE IF name = <<".", ".">> /\ get_attr_cached(s, parent_inode.parent) # NoAttr
             THEN Entry(s, get_attr_cached(s, parent_inode.parent))
             ELSE IF /\ ftp_path \in DOMAIN s.path_to_inode
                     /\ get_attr_cached(s, s.path_to_inode[ftp_path]) # NoAttr
             THEN Entry(s, get_attr_cached(s, s.path_to_inode[ftp_path]))
             ELSE Listed(list_ftp_directory_cached(s, parent_inode.ftp_path,
                                                   net1, net_reconnect, net2))

RECURSIVE collect_unfiltered(_, _, _, _, _)
\* a loop that materializes and pushes every entry: what C15 must tell
\* from collect
collect_unfiltered(s, ino, files, i, entries) ==
    IF i > Len(files) THEN [ s |-> s, entries |-> entries ]
    ELSE LET Pushed(m) ==
                 collect_unfiltered(m.s, ino, files, i + 1,
                                    Append(entries, [ino |-> m.inode.ino,
                                                     kind |-> m.inode.attr.kind,
                                                     name |-> m.inode.name]))
         IN  Pushed(get_or_create_inode(s, ino, files[i]))

RECURSIVE collect(_, _, _, _, _)
\* the loop over the listing: temporary names are skipped, every other
\* entry is materialized and pushed
collect(s, ino, files, i, entries) ==
    IF i > Len(files) THEN [ s |-> s, entries |-> entries ]
    ELSE IF is_temp_file(files[i].name) THEN collect(s, ino, files, i + 1, entries)
    ELSE LET Pushed(m) ==
                 collect(m.s, ino, files, i + 1,
                         Append(entries, [ino |-> m.inode.ino, kind |-> m.inode.attr.kind,
                                          name |-> m.inode.name]))
         IN  Pushed(get_or_create_inode(s, ino, files[i]))

\* a page whose offsets count the entry the buffer refused: what C12 must
\* tell from Page
PageSkipping(entries, offset, room) ==
    [ k \in 1..Cardinality({ i \in 1..Len(entries) : i > offset /\ i <= offset + room }) |->
        [ino |-> entries[offset + k].ino, offset |-> offset + k + 1,
         kind |-> entries[offset + k].kind, name |-> entries[offset + k].name] ]

\* the loop over entries.iter().enumerate().skip(offset): reply.add takes
\* entry i with offset i + 1 until the buffer is full; room is how many fit
Page(entries, offset, room) ==
    [ k \in 1..Cardinality({ i \in 1..Len(entries) : i > offset /\ i <= offset + room }) |->
        [ino |-> entries[offset + k].ino, offset |-> offset + k,
         kind |-> entries[offset + k].kind, name |-> entries[offset + k].name] ]

readdir(s, ino, offset, room, net1, net_reconnect, net2) ==
    IF ino \notin DOMAIN s.inodes THEN Error(s, ENOENT)
    ELSE LET inode == s.inodes[ino]
             Sent(c) == Reply(c.s, OK, NoAttr, Page(c.entries, offset, room), 0)
             Listed(l) ==
                 IF ~l.ok THEN Error(l.s, EIO)
                 ELSE Sent(collect(l.s, ino, l.files, 1,
                                   << [ino |-> inode.ino, kind |-> Directory, name |-> <<".">>],
                                      [ino |-> inode.parent, kind |-> Directory,
                                       name |-> <<".", ".">>] >>))
         IN  IF inode.attr.kind # Directory THEN Error(s, ENOTDIR)
             ELSE Listed(list_ftp_directory_cached(s, inode.ftp_path,
                                                   net1, net_reconnect, net2))

\* an open that takes only O_RDWR for write intent: what C20 must tell
\* from open
open_rdwr_only(s, ino, flags) ==
    LET a == allocate_fh(s)
        file_handle == FileHandle(ino, IF ((flags \div 2) % 2) # 0 THEN WriteBuffer(<<>>, FALSE)
                                       ELSE NoWriteBuffer)
    IN  Reply([a.s EXCEPT !.open_files = Put(@, a.fh, file_handle)], OK, NoAttr, <<>>, a.fh)

\* O_WRONLY = 1, O_RDWR = 2
open(s, ino, flags) ==
    LET a == allocate_fh(s)
        is_write_mode == (flags % 2) # 0 \/ ((flags \div 2) % 2) # 0
        file_handle == FileHandle(ino, IF is_write_mode THEN WriteBuffer(<<>>, FALSE)
                                       ELSE NoWriteBuffer)
    IN  Reply([a.s EXCEPT !.open_files = Put(@, a.fh, file_handle)], OK, NoAttr, <<>>, a.fh)

Min(a, b) == IF a <= b THEN a ELSE b

\* a slice of the right length taken from the start of the body: what C10
\* must tell from Slice
SliceFromStart(data, offset, end) == SubSeq(data, 1, end - offset)

\* &data[offset..end], offsets counted from 0
Slice(data, offset, end) == SubSeq(data, offset + 1, end)

read(s, ino, offset, size, net) ==
    IF ino \notin DOMAIN s.inodes THEN Error(s, ENOENT)
    ELSE LET inode == s.inodes[ino]
             l == load_file_data(s, ino, inode.ftp_path, net)
         IN  IF inode.attr.kind = Directory THEN Error(s, EISDIR)
             ELSE IF ~l.ok THEN Error(l.s, EIO)
             ELSE IF offset >= Len(l.data) THEN Reply(l.s, OK, NoAttr, <<>>, 0)
             ELSE Reply(l.s, OK, NoAttr, Slice(l.data, offset, Min(offset + size, Len(l.data))), 0)

\* a copy that lands one byte late: what C4 must tell from Overwrite
OverwriteOneLate(buffer, offset, data) ==
    LET start == offset + 1
        end == start + Len(data)
        len == IF end > Len(buffer) THEN end ELSE Len(buffer)
    IN  [ i \in 1..len |->
            IF i > start /\ i <= end THEN data[i - start]
            ELSE IF i <= Len(buffer) THEN buffer[i]
            ELSE 0 ]

\* a copy that cuts the buffer off where the data ends: what C13 must tell
\* from Overwrite
OverwriteTruncating(buffer, offset, data) ==
    [ i \in 1..(offset + Len(data)) |->
        IF i > offset THEN data[i - offset]
        ELSE IF i <= Len(buffer) THEN buffer[i]
        ELSE 0 ]

\* Vec::resize(end, 0) when the buffer is shorter, then
\* data[offset..end].copy_from_slice
Overwrite(buffer, offset, data) ==
    LET end == offset + Len(data)
        len == IF end > Len(buffer) THEN end ELSE Len(buffer)
    IN  [ i \in 1..len |->
            IF i > offset /\ i <= end THEN data[i - offset]
            ELSE IF i <= Len(buffer) THEN buffer[i]
            ELSE 0 ]

\* a write that mirrors the bytes it was given, not the buffer it made of
\* them: what C32 must tell from write
write_mirroring_data(s, ino, fh, offset, data) ==
    IF ino \notin DOMAIN s.inodes THEN Error(s, ENOENT)
    ELSE IF s.inodes[ino].attr.kind = Directory THEN Error(s, EISDIR)
    ELSE IF fh \in DOMAIN s.open_files /\ s.open_files[fh].write_buffer.some
    THEN Reply([s EXCEPT !.open_files[fh].write_buffer =
                             WriteBuffer(Overwrite(@.data, offset, data), TRUE),
                         !.read_cache = Put(@, ino, data)],
               OK, NoAttr, <<>>, 0)
    ELSE Error(s, EIO)

\* a write that leaves the buffer's dirty flag as it was: what C33 must tell
\* from write
write_leaving_flag(s, ino, fh, offset, data) ==
    IF ino \notin DOMAIN s.inodes THEN Error(s, ENOENT)
    ELSE IF s.inodes[ino].attr.kind = Directory THEN Error(s, EISDIR)
    ELSE IF fh \in DOMAIN s.open_files /\ s.open_files[fh].write_buffer.some
    THEN LET buffer == Overwrite(s.open_files[fh].write_buffer.data, offset, data)
         IN  Reply([s EXCEPT !.open_files[fh].write_buffer.data = buffer,
                             !.read_cache = Put(@, ino, buffer)],
                   OK, NoAttr, <<>>, 0)
    ELSE Error(s, EIO)

\* a write that stores at once instead of buffering: what C2 must tell from
\* write
write_through(s, ino, fh, offset, data) ==
    IF ino \notin DOMAIN s.inodes THEN Error(s, ENOENT)
    ELSE Reply(conn_store(s, s.inodes[ino].ftp_path, data, TRUE).s, OK, NoAttr, <<>>, 0)

\* a write that makes the buffer a handle lacks: what C19 must tell from
\* write
write_attaching(s, ino, fh, offset, data) ==
    IF ino \notin DOMAIN s.inodes THEN Error(s, ENOENT)
    ELSE IF s.inodes[ino].attr.kind = Directory THEN Error(s, EISDIR)
    ELSE Reply([s EXCEPT !.open_files = Put(@, fh, FileHandle(ino, WriteBuffer(data, TRUE))),
                         !.read_cache = Put(@, ino, data)],
               OK, NoAttr, <<>>, 0)

write(s, ino, fh, offset, data) ==
    IF ino \notin DOMAIN s.inodes THEN Error(s, ENOENT)
    ELSE IF s.inodes[ino].attr.kind = Directory THEN Error(s, EISDIR)
    ELSE IF fh \in DOMAIN s.open_files /\ s.open_files[fh].write_buffer.some
    THEN LET buffer == Overwrite(s.open_files[fh].write_buffer.data, offset, data)
         IN  Reply([s EXCEPT !.open_files[fh].write_buffer = WriteBuffer(buffer, TRUE),
                             !.read_cache = Put(@, ino, buffer)],
                   OK, NoAttr, <<>>, 0)
    ELSE Error(s, EIO)

create(s, parent, name, mode, net) ==
    IF is_temp_file(name) THEN Error(s, EOPNOTSUPP)
    ELSE IF parent \notin DOMAIN s.inodes THEN Error(s, ENOENT)
    ELSE LET parent_inode == s.inodes[parent]
             ftp_path == ChildPath(parent_inode.ftp_path, name)
             st == conn_store(s, ftp_path, <<>>, net)
             file_info == FtpFileInfo(name, ftp_path, 0, FALSE, mode % 512)
             c == get_or_create_inode(invalidate_dir_cache(st.s, parent_inode.ftp_path),
                                      parent, file_info)
         IN  IF st.ok THEN Entry(c.s, c.inode.attr)
             ELSE Error(st.s, EIO)

\* an eviction that leaves the read cache alone: what C34 must tell from
\* Evict
EvictKeepingData(s, ftp_path, caches) ==
    LET known == ftp_path \in DOMAIN s.path_to_inode
        ino == IF known THEN s.path_to_inode[ftp_path] ELSE 0
    IN  [s EXCEPT !.inodes = IF known THEN Without(@, {ino}) ELSE @,
                  !.attr_cache = IF known THEN Without(@, {ino}) ELSE @,
                  !.dir_cache = IF known /\ "dir" \in caches THEN Without(@, {ftp_path}) ELSE @,
                  !.path_to_inode = Without(@, {ftp_path})]

\* the eviction unlink and rmdir start with
Evict(s, ftp_path, caches) ==
    LET known == ftp_path \in DOMAIN s.path_to_inode
        ino == IF known THEN s.path_to_inode[ftp_path] ELSE 0
    IN  [s EXCEPT !.inodes = IF known THEN Without(@, {ino}) ELSE @,
                  !.read_cache = IF known /\ "read" \in caches THEN Without(@, {ino}) ELSE @,
                  !.attr_cache = IF known THEN Without(@, {ino}) ELSE @,
                  !.dir_cache = IF known /\ "dir" \in caches THEN Without(@, {ftp_path}) ELSE @,
                  !.path_to_inode = Without(@, {ftp_path})]

unlink(s, parent, name, net_size, net_dir, net_delete) ==
    IF is_temp_file(name) THEN Reply(s, OK, NoAttr, <<>>, 0)
    ELSE IF parent \notin DOMAIN s.inodes THEN Error(s, ENOENT)
    ELSE LET parent_inode == s.inodes[parent]
             ftp_path == ChildPath(parent_inode.ftp_path, name)
             evicted == invalidate_dir_cache(Evict(s, ftp_path, {"read"}), parent_inode.ftp_path)
             e == conn_exists(evicted, ftp_path, net_size, net_dir)
             exists == IF e.ok THEN e.val ELSE FALSE
             d == conn_delete(e.s, ftp_path, net_delete)
         IN  IF ~exists THEN Reply(e.s, OK, NoAttr, <<>>, 0)
             ELSE IF d.ok THEN Reply(d.s, OK, NoAttr, <<>>, 0)
             ELSE Error(d.s, EIO)

mkdir(s, parent, name, mode, net) ==
    IF parent \notin DOMAIN s.inodes THEN Error(s, ENOENT)
    ELSE LET parent_inode == s.inodes[parent]
             ftp_path == ChildPath(parent_inode.ftp_path, name)
             m == conn_mkdir(s, ftp_path, net)
             file_info == FtpFileInfo(name, ftp_path, 0, TRUE, mode % 512)
             c == get_or_create_inode(invalidate_dir_cache(m.s, parent_inode.ftp_path),
                                      parent, file_info)
         IN  IF m.ok THEN Entry(c.s, c.inode.attr)
             ELSE Error(m.s, EIO)

rmdir(s, parent, name, net) ==
    IF parent \notin DOMAIN s.inodes THEN Error(s, ENOENT)
    ELSE LET parent_inode == s.inodes[parent]
             ftp_path == ChildPath(parent_inode.ftp_path, name)
             evicted == invalidate_dir_cache(Evict(s, ftp_path, {"dir"}), parent_inode.ftp_path)
             r == conn_rmdir(evicted, ftp_path, net)
         IN  IF r.ok THEN Reply(r.s, OK, NoAttr, <<>>, 0)
             ELSE Error(r.s, EIO)

\* Error and Reply are what a handler that returns hands back; a handler
\* that never returns hands back no reply at all
NoReply == "no reply"

\* lines 1109-1113: the inode of old_path takes the new path, name and parent
Renamed(s, ino, new_path, newname, newparent) ==
    [s EXCEPT !.inodes = IF ino \in DOMAIN @
                         THEN [@ EXCEPT ![ino].ftp_path = new_path,
                                        ![ino].name = newname,
                                        ![ino].parent = newparent]
                         ELSE @]

\* The guard of path_to_inode taken by the if let at line 1108 lives to the
\* end of its block, and line 1114 locks path_to_inode again on the same
\* thread: Mutex::lock does not return on that second call (it blocks for
\* ever or panics).  So when old_path has an identifier the handler stops
\* after the inode's fields are changed, with the path map untouched and
\* no reply sent; only for an old_path without identifier does it go on.
rename(s, parent, name, newparent, newname, net) ==
    IF parent \notin DOMAIN s.inodes THEN Error(s, ENOENT)
    ELSE IF newparent \notin DOMAIN s.inodes THEN Error(s, ENOENT)
    ELSE LET parent_inode == s.inodes[parent]
             newparent_inode == s.inodes[newparent]
             old_path == ChildPath(parent_inode.ftp_path, name)
             new_path == ChildPath(newparent_inode.ftp_path, newname)
             inv1 == invalidate_dir_cache(s, parent_inode.ftp_path)
             inv2 == IF parent_inode.ftp_path # newparent_inode.ftp_path
                     THEN invalidate_dir_cache(inv1, newparent_inode.ftp_path)
                     ELSE inv1
             r == conn_rename(inv2, old_path, new_path, net)
         IN  IF old_path \in DOMAIN s.path_to_inode
             THEN Error(Renamed(s, s.path_to_inode[old_path], new_path, newname, newparent),
                        NoReply)
             ELSE IF r.ok THEN Reply(r.s, OK, NoAttr, <<>>, 0)
             ELSE Error(r.s, EIO)

release(s, ino, fh, net) ==
    LET y == sync_write_buffer(s, fh, net)
        removed == [y.s EXCEPT !.open_files = Without(@, {fh})]
        has_other_handles == \E h \in DOMAIN removed.open_files : removed.open_files[h].ino = ino
    IN  IF y.ok
        THEN Reply(IF has_other_handles THEN removed
                   ELSE [removed EXCEPT !.read_cache = Without(@, {ino})],
                   OK, NoAttr, <<>>, 0)
        ELSE Error(y.s, EIO)

fsync(s, fh, net) ==
    LET y == sync_write_buffer(s, fh, net)
    IN  IF y.ok THEN Reply(y.s, OK, NoAttr, <<>>, 0) ELSE Error(y.s, EIO)

flush(s, fh, net) ==
    LET y == sync_write_buffer(s, fh, net)
    IN  IF y.ok THEN Reply(y.s, OK, NoAttr, <<>>, 0) ELSE Error(y.s, EIO)

(***************************************************************************)
(* The state machine                                                       *)
(***************************************************************************)
VARIABLES
    inodes,         \* HashMap<u64, Inode>
    path_to_inode,  \* HashMap<String, u64>
    next_inode,     \* u64
    read_cache,     \* HashMap<u64, Vec<u8>>
    dir_cache,      \* HashMap<String, DirCacheEntry>
    attr_cache,     \* HashMap<u64, AttrCacheEntry>
    open_files,     \* HashMap<u64, FileHandle>
    next_fh,        \* u64
    ftp,            \* the tree of the FTP server
    blocked,        \* the session loop is inside a handler that never returns
    faulty,         \* how many requests have met a transport failure
    ticks,          \* how many times DIR_CACHE_TTL seconds have passed
    last,           \* the probe: a request with its reply and remote calls
    hist,           \* the probe: the requests before last that last continues
    perm_in,        \* a mode whose listing field parse_permissions is given
    perm_out        \* what parse_permissions made of it, once it has run

vars == << inodes, path_to_inode, next_inode, read_cache, dir_cache, attr_cache,
           open_files, next_fh, ftp, blocked, faulty, ticks, last, hist,
           perm_in, perm_out >>

\* the bytes a write may carry
Bytes == {1}

\* the server holds one file, and the backup an editor left of it, when
\* the filesystem is mounted
InitialTree ==
    (Slash :> RemoteDir) @@ (<<"/", "a">> :> RemoteFile(<<2, 2>>))
    @@ (<<"/", "a", "~">> :> RemoteFile(<<2>>))

St ==
    [ inodes |-> inodes, path_to_inode |-> path_to_inode, next_inode |-> next_inode,
      read_cache |-> read_cache, dir_cache |-> dir_cache, attr_cache |-> attr_cache,
      open_files |-> open_files, next_fh |-> next_fh, ftp |-> ftp, calls |-> <<>>,
      held |-> {} ]

Request(op, ino, name, newparent, newname, fh, offset, size, data) ==
    [ op |-> op, ino |-> ino, name |-> name, newparent |-> newparent, newname |-> newname,
      fh |-> fh, offset |-> offset, size |-> size, data |-> data ]

NoRequest == Request("none", 0, <<>>, 0, <<>>, 0, 0, 0, <<>>)

\* parse_permissions has not run
NotParsed == << >>

\* a request with the reply it got and the remote calls it made
Handled(req, out) ==
    [ req |-> req, reply |-> out.reply, attr |-> out.attr, data |-> out.data,
      fh |-> out.fh, calls |-> out.s.calls ]

\* the probe before it has recorded anything
Unprobed == Handled(NoRequest, Error(St, OK))

SyncOps == {"flush", "fsync", "release"}

SameName(x, req) == x.req.ino = req.ino /\ x.req.name = req.name

\* req continues a sequence of requests that x began (the sequences the
\* properties below speak of)
Link(x, req) ==
    \/ /\ x.req.op = "create" /\ x.reply = OK
       /\ req.op \in {"lookup", "unlink"} /\ SameName(x, req)
    \/ /\ x.req.op = "unlink" /\ x.reply = OK
       /\ req.op = "lookup" /\ SameName(x, req)
    \/ /\ x.req.op = "write" /\ x.reply = OK
       /\ req.op \in {"write", "flush"} /\ req.fh = x.req.fh
    \/ /\ x.req.op = "flush"
       /\ req.op = "read" /\ req.ino = x.req.ino /\ req.offset = 0
    \/ /\ x.req.op \in SyncOps /\ x.reply = OK
       /\ req.op \in SyncOps /\ req.fh = x.req.fh
    \/ /\ x.req.op = "lookup" /\ x.reply = OK
       /\ req.op = "rename" /\ SameName(x, req)
    \/ /\ x.req.op = "mkdir" /\ x.reply = OK
       /\ req.op = "lookup" /\ SameName(x, req)

\* the probe has recorded a request
Probed == last.req.op # "none"

\* the probe lets a request of this kind pass, or follows it
Follows(op) ==
    Probed => /\ Len(hist) < 2
              /\ \/ last.req.op = "create" /\ op \in {"lookup", "unlink"}
                 \/ last.req.op = "unlink" /\ op = "lookup"
                 \/ last.req.op = "write" /\ op \in {"write", "flush"}
                 \/ last.req.op = "flush" /\ op = "read"
                 \/ last.req.op \in SyncOps /\ op \in SyncOps
                 \/ last.req.op = "lookup" /\ op = "rename"
                 \/ last.req.op = "mkdir" /\ op = "lookup"

\* the model's bounds, as they apply to the tables a handler leaves, with
\* remote paths of up to depth components
Within(s, depth) ==
    /\ s.next_inode <= MaxIno + 1
    /\ s.next_fh <= MaxFh + 1
    /\ \A path \in DOMAIN s.ftp : Depth(path) <= depth
    /\ \A ino \in DOMAIN s.inodes : Depth(s.inodes[ino].ftp_path) <= depth

Bounded(s) == Within(s, MaxDepth)

\* fewer than MaxFaulty requests have met a transport failure
MayFail == faulty < MaxFaulty

\* The tables after a request are those the handler leaves.  The probe
\* (last, hist) takes no part in the handlers: it either lets the request
\* pass, or records it; once it has recorded a request it follows only the
\* requests that continue it (Link), up to three in a row, and the run ends
\* there.  Every state of the tables such a run would go on to is reached
\* by the runs the probe lets pass.
Step(req, out, failed, depth) ==
    /\ ~blocked
    /\ failed => MayFail
    /\ Probed => Link(last, req)
    /\ Within(out.s, depth)
    /\ inodes' = out.s.inodes
    /\ path_to_inode' = out.s.path_to_inode
    /\ next_inode' = out.s.next_inode
    /\ read_cache' = out.s.read_cache
    /\ dir_cache' = out.s.dir_cache
    /\ attr_cache' = out.s.attr_cache
    /\ open_files' = out.s.open_files
    /\ next_fh' = out.s.next_fh
    /\ ftp' = out.s.ftp
    /\ blocked' = (out.reply = NoReply)
    /\ faulty' = IF failed THEN faulty + 1 ELSE faulty
    /\ ticks' = ticks
    /\ UNCHANGED << perm_in, perm_out >>
    /\ IF ~Probed
       THEN /\ last' \in {Unprobed, Handled(req, out)}
            /\ hist' = << >>
       ELSE /\ last' = Handled(req, out)
            /\ hist' = Append(hist, last)

Do(req, out, failed) == Step(req, out, failed, MaxDepth)

Init ==
    /\ inodes = (ROOT_INODE :> root_inode)
    /\ path_to_inode = (Slash :> ROOT_INODE)
    /\ next_inode = 2
    /\ read_cache = << >>
    /\ dir_cache = << >>
    /\ attr_cache = (ROOT_INODE :> AttrCacheEntry(root_attr))
    /\ open_files = << >>
    /\ next_fh = 1
    /\ ftp = InitialTree
    /\ blocked = FALSE
    /\ faulty = 0
    /\ ticks = 0
    /\ last = Unprobed
    /\ hist = << >>
    /\ perm_in = 0
    /\ perm_out = NotParsed

\* the identifiers the kernel may name as a directory: every identifier
\* ever replied, except those it knows as regular files
Parents ==
    { i \in 1..(next_inode - 1) : i \in DOMAIN inodes => inodes[i].attr.kind = Directory }

\* the ways a cached listing can meet the network: first list_dir,
\* reconnect, second list_dir (a call not made is TRUE)
ListNet ==
    { <<TRUE, TRUE, TRUE>>, <<FALSE, FALSE, TRUE>>, <<FALSE, TRUE, TRUE>>, <<FALSE, TRUE, FALSE>> }

\* the ways get_ftp_file_info can meet the network: is_dir, size
ProbeNet ==
    { <<"ok", TRUE>>, <<"ok", FALSE>>, <<"cwd_fails", TRUE>>, <<"cwd_fails", FALSE>>,
      <<"err", TRUE>> }

\* the ways exists and delete can meet the network: size, is_dir, delete
UnlinkNet ==
    { <<TRUE, "ok", TRUE>>, <<TRUE, "ok", FALSE>>, <<FALSE, "ok", TRUE>>, <<FALSE, "ok", FALSE>>,
      <<FALSE, "cwd_fails", TRUE>>, <<FALSE, "err", TRUE>> }

ListFails(l) == l # <<TRUE, TRUE, TRUE>>

ProbeFails(g) == g # <<"ok", TRUE>>

\* the inputs left once MaxFaulty requests have met a failure
Nets == IF MayFail THEN BOOLEAN ELSE {TRUE}

ListNets == IF MayFail THEN ListNet ELSE {<<TRUE, TRUE, TRUE>>}

ProbeNets == IF MayFail THEN ProbeNet ELSE {<<"ok", TRUE>>}

UnlinkNets == IF MayFail THEN UnlinkNet ELSE {<<TRUE, "ok", TRUE>>}

\* the mode a create carries (S_IFREG | 0o644) and the mode a mkdir carries (0o755)
CreateModes == {33188}

MkdirModes == {493}

Lookup ==
    /\ Follows("lookup")
    /\ \E parent \in Parents, name \in Names, l \in ListNets, g \in ProbeNets :
           Do(Request("lookup", parent, name, 0, <<>>, 0, 0, 0, <<>>),
              lookup(St, parent, name, l[1], l[2], l[3], g[1], g[2]),
              ListFails(l) \/ ProbeFails(g))

\* the names of a directory itself and of the directory above it
DotNames == { <<".">>, <<".", ".">> }

LookupDots ==
    /\ Follows("lookup")
    /\ \E parent \in Parents, name \in DotNames, l \in ListNets, g \in ProbeNets :
           Do(Request("lookup", parent, name, 0, <<>>, 0, 0, 0, <<>>),
              lookup(St, parent, name, l[1], l[2], l[3], g[1], g[2]),
              ListFails(l) \/ ProbeFails(g))

\* the kernel asks for the attributes of any identifier it was ever replied
Getattr ==
    /\ Follows("getattr")
    /\ \E ino \in 1..(next_inode - 1), later \in BOOLEAN, g \in ProbeNets :
           Do(Request("getattr", ino, <<>>, 0, <<>>, 0, 0, 0, <<>>),
              getattr(St, ino, later, g[1], g[2]),
              ProbeFails(g))

\* the modes and sizes a setattr may carry: none, chmod 600 as the kernel
\* sends it for a file (S_IFREG | 0o600) and chmod 700 as it sends it for
\* a directory (S_IFDIR | 0o700), and a size just over one block
SetattrModes == { << >>, << 33152 >>, << 16832 >> }

SetattrSizes == { << >>, << 513 >> }

\* the kernel sets the mode of any identifier it was ever replied, with
\* the type bits of what it knows the identifier as, and the size only of
\* what it knows as a regular file
Setattr ==
    /\ Follows("setattr")
    /\ \E ino \in 1..(next_inode - 1), mode \in SetattrModes, size \in SetattrSizes :
           /\ size # << >> => (ino \in DOMAIN inodes /\ inodes[ino].attr.kind = RegularFile)
           /\ mode # << >> =>
                 /\ ino \in DOMAIN inodes
                 /\ (mode[1] \div S_IFDIR) % 2 = 1 <=> inodes[ino].attr.kind = Directory
           /\ Do(Request("setattr", ino, <<>>, 0, <<>>, 0, 0, 0, << mode, size >>),
                 setattr(St, ino, mode, size),
                 FALSE)

Readdir ==
    /\ Follows("readdir")
    /\ \E ino \in DOMAIN inodes, offset \in 0..2, room \in 1..2, l \in ListNets :
           Do(Request("readdir", ino, <<>>, 0, <<>>, 0, offset, room, <<>>),
              readdir(St, ino, offset, room, l[1], l[2], l[3]),
              ListFails(l))

\* the kernel opens, reads and writes what it knows as a regular file
Files == { i \in DOMAIN inodes : inodes[i].attr.kind = RegularFile }

\* O_RDONLY and O_RDWR
OpenFlags == {0, 2}

Open ==
    /\ Follows("open")
    /\ \E ino \in Files, flags \in OpenFlags :
           Do(Request("open", ino, <<>>, 0, <<>>, 0, 0, flags, <<>>), open(St, ino, flags), FALSE)

Read ==
    /\ Follows("read")
    /\ \E ino \in Files, offset \in 0..(MaxLen + 1), size \in 0..(MaxLen + 1),
          net \in Nets :
           Do(Request("read", ino, <<>>, 0, <<>>, 0, offset, size, <<>>),
              read(St, ino, offset, size, net),
              ~net)

\* the data of a write: up to MaxLen bytes
Datas == UNION { [1..n -> Bytes] : n \in 0..MaxLen }

Write ==
    /\ Follows("write")
    /\ \E fh \in DOMAIN open_files, offset \in 0..MaxLen, data \in Datas :
           /\ offset + Len(data) <= MaxLen
           /\ Do(Request("write", open_files[fh].ino, <<>>, 0, <<>>, fh, offset, 0, data),
                 write(St, open_files[fh].ino, fh, offset, data),
                 FALSE)

Create ==
    /\ Follows("create")
    /\ \E parent \in Parents, name \in Names, mode \in CreateModes, net \in Nets :
           Do(Request("create", parent, name, 0, <<>>, 0, 0, mode, <<>>),
              create(St, parent, name, mode, net),
              ~net)

Unlink ==
    /\ Follows("unlink")
    /\ \E parent \in Parents, name \in Names, n \in UnlinkNets :
           Do(Request("unlink", parent, name, 0, <<>>, 0, 0, 0, <<>>),
              unlink(St, parent, name, n[1], n[2], n[3]),
              n # <<TRUE, "ok", TRUE>>)

Mkdir ==
    /\ Follows("mkdir")
    /\ \E parent \in Parents, name \in Names, mode \in MkdirModes, net \in Nets :
           Do(Request("mkdir", parent, name, 0, <<>>, 0, 0, mode, <<>>),
              mkdir(St, parent, name, mode, net),
              ~net)

Rmdir ==
    /\ Follows("rmdir")
    /\ \E parent \in Parents, name \in Names, net \in Nets :
           Do(Request("rmdir", parent, name, 0, <<>>, 0, 0, 0, <<>>),
              rmdir(St, parent, name, net),
              ~net)

\* the kernel does not hand over a rename of a name to itself
Rename ==
    /\ Follows("rename")
    /\ \E parent \in Parents, name \in Names, newparent \in Parents, newname \in Names,
          net \in Nets :
           /\ <<parent, name>> # <<newparent, newname>>
           /\ Do(Request("rename", parent, name, newparent, newname, 0, 0, 0, <<>>),
                 rename(St, parent, name, newparent, newname, net),
                 ~net)

Release ==
    /\ Follows("release")
    /\ \E fh \in DOMAIN open_files, net \in Nets :
           Do(Request("release", open_files[fh].ino, <<>>, 0, <<>>, fh, 0, 0, <<>>),
              release(St, open_files[fh].ino, fh, net),
              ~net)

Fsync ==
    /\ Follows("fsync")
    /\ \E fh \in DOMAIN open_files, net \in Nets :
           Do(Request("fsync", open_files[fh].ino, <<>>, 0, <<>>, fh, 0, 0, <<>>),
              fsync(St, fh, net),
              ~net)

Flush ==
    /\ Follows("flush")
    /\ \E fh \in DOMAIN open_files, net \in Nets :
           Do(Request("flush", open_files[fh].ino, <<>>, 0, <<>>, fh, 0, 0, <<>>),
              flush(St, fh, net),
              ~net)

\* an age past which the code no longer tells entries apart
Older(age, cap) == IF age + DIR_CACHE_TTL > cap THEN cap ELSE age + DIR_CACHE_TTL

\* DIR_CACHE_TTL seconds pass between two requests
Tick ==
    /\ ~blocked
    /\ ~Probed
    /\ ticks < MaxTicks
    /\ ticks' = ticks + 1
    /\ dir_cache' = [ p \in DOMAIN dir_cache |->
                        [dir_cache[p] EXCEPT !.age = Older(@, DIR_CACHE_TTL)] ]
    /\ attr_cache' = [ i \in DOMAIN attr_cache |->
                         [attr_cache[i] EXCEPT !.age = Older(@, ATTR_CACHE_TTL + DIR_CACHE_TTL)] ]
    /\ UNCHANGED << inodes, path_to_inode, next_inode, read_cache, open_files, next_fh, ftp,
                    blocked, faulty, last, hist, perm_in, perm_out >>

Next ==
    \/ Lookup
    \/ Readdir
    \/ Open
    \/ Read
    \/ Write
    \/ Create
    \/ Unlink
    \/ Mkdir
    \/ Rmdir
    \/ Rename
    \/ Release
    \/ Fsync
    \/ Flush
    \/ Tick

Spec == Init /\ [][Next]_vars

\* the requests that work on the contents of files
NextData ==
    \/ Lookup
    \/ Open
    \/ Read
    \/ Write
    \/ Unlink
    \/ Release
    \/ Fsync
    \/ Flush

SpecData == Init /\ [][NextData]_vars

\* the requests that work on the names of files
NextNames ==
    \/ Lookup
    \/ Create
    \/ Unlink
    \/ Rename
    \/ Tick

SpecNames == Init /\ [][NextNames]_vars

\* the requests that work on directories
NextDirs ==
    \/ Lookup
    \/ LookupDots
    \/ Readdir
    \/ Mkdir
    \/ Rmdir
    \/ Tick

SpecDirs == Init /\ [][NextDirs]_vars

\* the requests that filter temporary names
NextTemp ==
    \/ Lookup
    \/ Readdir
    \/ Create
    \/ Unlink

SpecTemp == Init /\ [][NextTemp]_vars

\* the requests that make, use and release handles
NextOpen ==
    \/ Lookup
    \/ Open
    \/ Write
    \/ Release

SpecOpen == Init /\ [][NextOpen]_vars

\* the requests that make directories, files, handles and stale identifiers
NextErr ==
    \/ Lookup
    \/ Mkdir
    \/ Open
    \/ Write
    \/ Unlink

SpecErr == Init /\ [][NextErr]_vars

\* the requests that fill, age and read the attribute cache
NextAttr ==
    \/ Lookup
    \/ Getattr
    \/ Mkdir
    \/ Unlink
    \/ Tick

SpecAttr == Init /\ [][NextAttr]_vars

\* the requests that make and release inodes
NextAlloc ==
    \/ Lookup
    \/ Readdir
    \/ Create
    \/ Unlink
    \/ Mkdir
    \/ Rmdir

SpecAlloc == Init /\ [][NextAlloc]_vars

\* the requests that write a file back while its caches age
NextStale ==
    \/ Lookup
    \/ Open
    \/ Write
    \/ Flush
    \/ Tick

SpecStale == Init /\ [][NextStale]_vars

\* the requests that set and refresh attributes
NextSet ==
    \/ Lookup
    \/ Setattr
    \/ Getattr
    \/ Tick

SpecSet == Init /\ [][NextSet]_vars

\* the same requests where the tree may grow one level deeper
DeepMkdir ==
    /\ Follows("mkdir")
    /\ \E parent \in Parents, name \in Names, mode \in MkdirModes, net \in Nets :
           Step(Request("mkdir", parent, name, 0, <<>>, 0, 0, mode, <<>>),
                mkdir(St, parent, name, mode, net),
                ~net, MaxDeep)

DeepCreate ==
    /\ Follows("create")
    /\ \E parent \in Parents, name \in Names, mode \in CreateModes, net \in Nets :
           Step(Request("create", parent, name, 0, <<>>, 0, 0, mode, <<>>),
                create(St, parent, name, mode, net),
                ~net, MaxDeep)

DeepRmdir ==
    /\ Follows("rmdir")
    /\ \E parent \in Parents, name \in Names, net \in Nets :
           Step(Request("rmdir", parent, name, 0, <<>>, 0, 0, 0, <<>>),
                rmdir(St, parent, name, net),
                ~net, MaxDeep)

\* the requests that make and remove directories with entries in them
NextDeep ==
    \/ DeepMkdir
    \/ DeepCreate
    \/ DeepRmdir

SpecDeep == Init /\ [][NextDeep]_vars

\* the modes a listing can show: nine permission bits and the directory flag
Modes == { m + d : m \in 0..511, d \in {0, S_IFDIR} }

\* parse_permissions on its own: the field of any mode may come in
InitPerm ==
    /\ inodes = (ROOT_INODE :> root_inode)
    /\ path_to_inode = (Slash :> ROOT_INODE)
    /\ next_inode = 2
    /\ read_cache = << >>
    /\ dir_cache = << >>
    /\ attr_cache = (ROOT_INODE :> AttrCacheEntry(root_attr))
    /\ open_files = << >>
    /\ next_fh = 1
    /\ ftp = InitialTree
    /\ blocked = FALSE
    /\ faulty = 0
    /\ ticks = 0
    /\ last = Unprobed
    /\ hist = << >>
    /\ perm_in \in Modes
    /\ perm_out = NotParsed

ParsePermissions ==
    /\ perm_out = NotParsed
    /\ perm_out' = << parse_permissions(PermString(perm_in)) >>
    /\ UNCHANGED << inodes, path_to_inode, next_inode, read_cache, dir_cache, attr_cache,
                    open_files, next_fh, ftp, blocked, faulty, ticks, last, hist, perm_in >>

SpecPerm == InitPerm /\ [][ParsePermissions]_vars

(***************************************************************************)
(* Properties                                                              *)
(***************************************************************************)

\* the request before the last one, when the probe followed a sequence
prev == hist[Len(hist)]

Stores(calls) == { k \in 1..Len(calls) : calls[k].fn = "store" }

\* the write buffer of a handle is dirty
Dirty(fh) ==
    /\ fh \in DOMAIN open_files
    /\ open_files[fh].write_buffer.some
    /\ open_files[fh].write_buffer.dirty

\* C1: the path map and the inode table are mutually consistent: every inode
\* record is filed in the path map under its own remote path, and every
\* entry of the path map names a live inode whose remote path is the key.
C1_PathMapConsistent ==
    /\ \A i \in DOMAIN inodes :
          /\ inodes[i].ino = i
          /\ inodes[i].ftp_path \in DOMAIN path_to_inode
          /\ path_to_inode[inodes[i].ftp_path] = i
    /\ \A path \in DOMAIN path_to_inode :
          /\ path_to_inode[path] \in DOMAIN inodes
          /\ inodes[path_to_inode[path]].ftp_path = path

\* C2 as the claim states it: no write issues a remote call, and a flush of
\* a handle that has been written issues exactly one store, of the whole
\* buffer, to the remote path of the owning inode.
C2_FlushAlwaysStores ==
    /\ last.req.op = "write" => last.calls = << >>
    /\ last.req.op = "flush" /\ Dirty(last.req.fh) =>
          /\ Len(last.calls) = 1
          /\ last.calls[1].fn = "store"
          /\ last.calls[1].arg = open_files[last.req.fh].write_buffer.data
          /\ last.req.ino \in DOMAIN inodes
          /\ last.calls[1].path = inodes[last.req.ino].ftp_path

\* C2: no write issues a remote call; a flush of a handle that has been
\* written issues exactly one store, of the whole buffer, to the remote path
\* of the owning inode, as long as that inode is still in the inode table;
\* once the inode has been evicted the flush issues no remote call and
\* replies EIO.
C2_WriteBack ==
    /\ last.req.op = "write" => last.calls = << >>
    /\ last.req.op = "flush" /\ Dirty(last.req.fh) =>
          IF last.req.ino \in DOMAIN inodes
          THEN /\ Len(last.calls) = 1
               /\ last.calls[1].fn = "store"
               /\ last.calls[1].arg = open_files[last.req.fh].write_buffer.data
               /\ last.calls[1].path = inodes[last.req.ino].ftp_path
          ELSE /\ last.calls = << >>
               /\ last.reply = EIO

\* two writes have built a buffer of MaxLen bytes and the flush has stored it
C2_Witness ==
    /\ last.req.op = "flush" /\ Dirty(last.req.fh)
    /\ Len(hist) = 2 /\ hist[1].req.op = "write" /\ hist[2].req.op = "write"
    /\ hist[2].req.offset = Len(hist[1].req.data)
    /\ last.reply = OK
    /\ Len(last.calls) = 1
    /\ last.calls[1].arg = hist[1].req.data \o hist[2].req.data
    /\ Len(last.calls[1].arg) = MaxLen

\* C3: a sync (flush, fsync, release) that follows a successful sync of the
\* same handle, with no write in between, issues no store.
C3_IdleSyncStoresNothing ==
    /\ Probed /\ hist # << >>
    /\ last.req.op \in SyncOps
    /\ prev.req.op \in SyncOps
    /\ prev.req.fh = last.req.fh
    /\ prev.reply = OK
    => Stores(last.calls) = {}

\* C4: write(h, 0, B), accepted; flush(h); read(id, 0, len(B)) returns B.
C4_RoundTrip ==
    /\ Len(hist) = 2
    /\ hist[1].req.op = "write" /\ hist[1].reply = OK /\ hist[1].req.offset = 0
    /\ hist[2].req.op = "flush" /\ hist[2].req.fh = hist[1].req.fh
    /\ last.req.op = "read" /\ last.req.ino = hist[1].req.ino
    /\ last.req.offset = 0 /\ last.req.size = Len(hist[1].req.data)
    => /\ last.reply = OK
       /\ last.data = hist[1].req.data

\* B is written over a longer buffer, the flush fails, the read returns B
C4_Witness ==
    /\ Len(hist) = 2
    /\ hist[1].req.op = "write" /\ hist[1].reply = OK /\ hist[1].req.offset = 0
    /\ hist[2].req.op = "flush" /\ hist[2].reply = EIO
    /\ last.req.op = "read" /\ last.req.size = Len(hist[1].req.data)
    /\ last.data = hist[1].req.data
    /\ last.data # << >>
    /\ Len(read_cache[last.req.ino]) > Len(last.data)

\* the remote path a request names
NamedPath(req) == ChildPath(inodes[req.ino].ftp_path, req.name)

\* C5: with no transport failure, create(parent, name) succeeding, then
\* unlink(parent, name) succeeding, then lookup(parent, name): the lookup
\* replies ENOENT and leaves no inode for the path.
C5_CreateUnlinkLookup ==
    /\ faulty = 0
    /\ Len(hist) = 2
    /\ hist[1].req.op = "create" /\ hist[1].reply = OK
    /\ hist[2].req.op = "unlink" /\ hist[2].reply = OK /\ SameName(hist[1], hist[2].req)
    /\ last.req.op = "lookup" /\ SameName(hist[1], last.req)
    /\ last.req.ino \in DOMAIN inodes
    => /\ last.reply = ENOENT
       /\ NamedPath(last.req) \notin DOMAIN path_to_inode

\* C6: with no transport failure, a lookup of a name that is not transient
\* and whose remote path is not on the server replies ENOENT and leaves the
\* inode table, the path map and the next identifier as they were.
C6_LookupOfAbsentPath ==
    [][ /\ ~Probed /\ Probed'
        /\ faulty' = 0
        /\ last'.req.op = "lookup"
        /\ last'.req.ino \in DOMAIN inodes
        /\ ~is_temp_file(last'.req.name)
        /\ ChildPath(inodes[last'.req.ino].ftp_path, last'.req.name) \notin DOMAIN ftp
        => /\ last'.reply = ENOENT
           /\ next_inode' = next_inode
           /\ inodes' = inodes
           /\ path_to_inode' = path_to_inode ]_vars

\* C7: with no transport failure, lookup(p, a) returned identifier I; then
\* rename(p, a, q, b) is answered, and when it is answered OK the inode I has the new remote path,
\* name and parent, the path map holds I under the new path and no longer
\* holds the old path, and no identifier has been allocated.
C7_RenameKeepsIdentifier ==
    /\ faulty = 0
    /\ Len(hist) = 1
    /\ hist[1].req.op = "lookup" /\ hist[1].reply = OK
    /\ last.req.op = "rename" /\ SameName(hist[1], last.req)
    /\ last.req.ino \in DOMAIN inodes /\ last.req.newparent \in DOMAIN inodes
    => /\ last.reply # NoReply
       /\ last.reply = OK =>
            LET I == hist[1].attr.ino
                new_path == ChildPath(inodes[last.req.newparent].ftp_path, last.req.newname)
            IN  /\ I \in DOMAIN inodes
                /\ inodes[I].ftp_path = new_path
                /\ inodes[I].name = last.req.newname
                /\ inodes[I].parent = last.req.newparent
                /\ new_path \in DOMAIN path_to_inode
                /\ path_to_inode[new_path] = I
                /\ NamedPath(last.req) \notin DOMAIN path_to_inode

\* C8: with no transport failure, create(parent, name) succeeded; a
\* lookup(parent, name) that follows it at once returns the inode the create returned and makes no remote call.
C8_LookupAfterCreate ==
    /\ faulty = 0
    /\ Len(hist) = 1
    /\ hist[1].req.op = "create" /\ hist[1].reply = OK
    /\ last.req.op = "lookup" /\ SameName(hist[1], last.req)
    => /\ last.reply = OK
       /\ last.attr.ino = hist[1].attr.ino
       /\ last.calls = << >>

\* C9: after a sync (flush, fsync, release) has stored a dirty buffer of
\* length L of identifier I, the attribute cache holds for I size = L and
\* blocks = ceil(L / 512).
C9_SyncSizesAttrCache ==
    /\ last.req.op \in SyncOps
    /\ last.reply = OK
    /\ Stores(last.calls) # {}
    => LET L == Len(last.calls[1].arg)
           I == last.req.ino
       IN  /\ I \in DOMAIN attr_cache
           /\ attr_cache[I].attr.size = L
           /\ attr_cache[I].attr.blocks * 512 >= L
           /\ (attr_cache[I].attr.blocks = 0 \/ (attr_cache[I].attr.blocks - 1) * 512 < L)

\* a release has stored a buffer that is not empty
C9_Witness ==
    /\ last.req.op = "release" /\ last.reply = OK
    /\ Stores(last.calls) # {}
    /\ Len(last.calls[1].arg) > 0
    /\ attr_cache[last.req.ino].attr.size = Len(last.calls[1].arg)
    /\ attr_cache[last.req.ino].attr.blocks = 1

\* C10: a read that succeeds returns the bytes [offset, min(offset + n, len))
\* of the loaded body: nothing when offset >= len, at most n bytes, at most
\* len - offset bytes.
C10_ReadSlice ==
    last.req.op = "read" /\ last.reply = OK =>
        /\ last.req.ino \in DOMAIN read_cache
        /\ LET body == read_cache[last.req.ino]
               offset == last.req.offset
               n == last.req.size
               len == Len(body)
           IN  /\ offset >= len => last.data = << >>
               /\ Len(last.data) <= n
               /\ offset < len =>
                    /\ Len(last.data) = IF offset + n <= len THEN n ELSE len - offset
                    /\ \A k \in 1..Len(last.data) : last.data[k] = body[offset + k]

\* a read past the middle of the body that asks for more than is left
C10_Witness ==
    /\ last.req.op = "read" /\ last.reply = OK
    /\ last.req.offset > 0
    /\ last.req.offset + last.req.size > Len(read_cache[last.req.ino])
    /\ Len(last.data) = 1
    /\ last.data[1] # read_cache[last.req.ino][1]

\* C11: a lookup of ".." in the root replies the root's own attributes
\* (identifier 1) whatever the age of the root's attribute-cache entry,
\* and allocates no identifier.
C11_RootDotDot ==
    (/\ faulty = 0
     /\ last.req.op = "lookup"
     /\ last.req.ino = ROOT_INODE
     /\ last.req.name = <<".", ".">>)
    => /\ last.reply = OK
       /\ last.attr = root_attr
       /\ last.calls = << >>
       /\ <<"/", ".", ".">> \notin DOMAIN path_to_inode

RECURSIVE Paged(_, _, _, _)
\* the basenames a sequence of readdir calls emits, each call resuming at
\* the offset of the last entry the call before it emitted, until a call
\* emits nothing
Paged(s, ino, offset, room) ==
    LET More(r) ==
            IF r.reply # OK \/ r.data = << >> THEN << >>
            ELSE [ k \in 1..Len(r.data) |-> r.data[k].name ]
                 \o Paged(r.s, ino, r.data[Len(r.data)].offset, room)
    IN  More(readdir(s, ino, offset, room, TRUE, TRUE, TRUE))

\* the basenames of a listing that are not temporary, in listing order
Kept(files) ==
    LET kept == SelectSeq(files, LAMBDA f : ~is_temp_file(f.name))
    IN  [ k \in 1..Len(kept) |-> kept[k].name ]

\* C12: for a directory whose listing does not change between the calls,
\* readdir calls that each resume at the offset of the last entry emitted
\* emit ".", ".." and every child that is not temporary exactly once, in
\* listing order, whatever number of entries the reply buffer takes per
\* call; an entry the buffer refused is the first entry of the next call.
C12_ReaddirPagination ==
    ~blocked =>
        \A ino \in DOMAIN inodes, room \in 1..3 :
            LET l == list_ftp_directory_cached(St, inodes[ino].ftp_path, TRUE, TRUE, TRUE)
            IN  (inodes[ino].attr.kind = Directory /\ l.ok)
                => Paged(St, ino, 0, room) = << <<".">>, <<".", ".">> >> \o Kept(l.files)

\* a readdir resumed at offset 1 emitted "..", the buffer refused the
\* child after it, and the listing holds a temporary name
C12_Witness ==
    /\ last.req.op = "readdir" /\ last.reply = OK
    /\ last.req.offset = 1 /\ last.req.size = 1
    /\ Len(last.data) = 1 /\ last.data[1].offset = 2
    /\ Len(Paged(St, last.req.ino, 0, 1)) > 2
    /\ \E f \in DOMAIN dir_cache[inodes[last.req.ino].ftp_path].files :
           is_temp_file(dir_cache[inodes[last.req.ino].ftp_path].files[f].name)

\* C13: a write of data D at an offset into a write buffer of length n
\* that replies success leaves a buffer of length max(n, offset + len(D))
\* whose bytes [offset, offset + len(D)) are D, whose bytes in [n, offset)
\* are zero, and whose other bytes are as before; the buffer is dirty.
C13_WriteSplices ==
    [][ (/\ last'.req.op = "write" /\ last'.reply = OK
         /\ (~Probed \/ hist' # hist))
        => LET fh == last'.req.fh
               offset == last'.req.offset
               D == last'.req.data
               old == open_files[fh].write_buffer.data
               new == open_files'[fh].write_buffer.data
           IN  /\ Len(new) = IF Len(old) > offset + Len(D) THEN Len(old)
                              ELSE offset + Len(D)
               /\ \A i \in 1..Len(new) :
                      new[i] = IF i > offset /\ i <= offset + Len(D) THEN D[i - offset]
                               ELSE IF i <= Len(old) THEN old[i]
                               ELSE 0
               /\ open_files'[fh].write_buffer.dirty ]_vars

\* a write past the end of an empty buffer has left a zero before its byte
C13_Witness ==
    /\ last.req.op = "write" /\ last.reply = OK
    /\ last.req.offset = 1 /\ last.req.data = <<1>>
    /\ open_files[last.req.fh].write_buffer.data = <<0, 1>>
    /\ open_files[last.req.fh].write_buffer.dirty

\* the attributes of a directory made with the mode of a mkdir
MadeDirectory(attr, mode) ==
    /\ attr.kind = Directory
    /\ attr.size = 0
    /\ attr.nlink = 2
    /\ attr.perm = mode % 512

\* C14: the inode a successful mkdir(parent, name, mode) replies, and the
\* inode the lookup(parent, name) after it replies, is a directory of size
\* 0 with link count 2 and permission bits mode & 0o777, whatever requests
\* came before the mkdir.
C14_MkdirMakesDirectory ==
    /\ (/\ faulty = 0
        /\ last.req.op = "mkdir" /\ last.reply = OK)
       => MadeDirectory(last.attr, last.req.size)
    /\ (/\ faulty = 0
        /\ last.req.op = "lookup" /\ last.reply = OK
        /\ hist # << >>
        /\ prev.req.op = "mkdir" /\ prev.reply = OK)
       => MadeDirectory(last.attr, prev.req.size)

\* basenames an editor or a tool leaves behind, and some it does not
SampleNames ==
    { <<"a", "~">>, <<"~">>, <<".", "s", "w", "p">>, <<".", "a", ".", "t", "m", "p">>,
      <<".", "g", "i", "t">>, <<".", "b", "~">>, <<"a">>, <<".", "b">>, <<"a", ".", "t", "m", "p">> }

\* C15: for a basename is_temp_file classifies as temporary, lookup replies
\* ENOENT, create replies EOPNOTSUPP and unlink replies success, each with
\* no remote call and with the inode table, the path map and the three
\* caches as they were, whatever the parent identifier and the state of the
\* network; readdir emits no temporary basename.
C15_TemporaryNames ==
    ~blocked =>
    /\ \A name \in SampleNames, parent \in 1..(MaxIno + 1) :
          is_temp_file(name) =>
            /\ \A l \in ListNet, g \in ProbeNet :
                  lookup(St, parent, name, l[1], l[2], l[3], g[1], g[2]) = Error(St, ENOENT)
            /\ \A mode \in CreateModes, net \in BOOLEAN :
                  create(St, parent, name, mode, net) = Error(St, EOPNOTSUPP)
            /\ \A n \in UnlinkNet :
                  unlink(St, parent, name, n[1], n[2], n[3]) = Reply(St, OK, NoAttr, <<>>, 0)
    /\ \A ino \in DOMAIN inodes, offset \in 0..3, room \in 1..3, l \in ListNet :
          LET r == readdir(St, ino, offset, room, l[1], l[2], l[3])
          IN  \A k \in 1..Len(r.data) : ~is_temp_file(r.data[k].name)

\* a lookup of a temporary name that the server holds, and that the cached
\* listing of its directory shows, was replied ENOENT without a remote call
C15_Witness ==
    /\ last.req.op = "lookup" /\ last.reply = ENOENT
    /\ is_temp_file(last.req.name)
    /\ last.req.ino \in DOMAIN inodes
    /\ ChildPath(inodes[last.req.ino].ftp_path, last.req.name) \in DOMAIN ftp
    /\ last.calls = << >>
    /\ inodes[last.req.ino].ftp_path \in DOMAIN dir_cache
    /\ \E f \in DOMAIN dir_cache[inodes[last.req.ino].ftp_path].files :
           dir_cache[inodes[last.req.ino].ftp_path].files[f].name = last.req.name

\* C16: parse_permissions gives back the mode whose ls -l field it is
\* handed, for every combination of the nine rwx bits with and without the
\* directory flag (set exactly when the field starts with 'd'); so
\* "drwxr-xr-x" is 0o040755, "-rw-r--r--" is 0o644 and "-rwxrwxrwx" is 0o777.
C16_ParseInvertsSynthesis ==
    perm_out # NotParsed =>
        /\ perm_out[1] = perm_in
        /\ (perm_out[1] \div S_IFDIR) % 2 = 1 <=> PermString(perm_in)[1] = "d"
        /\ parse_permissions(<<"d", "r", "w", "x", "r", "-", "x", "r", "-", "x">>) = 16877
        /\ parse_permissions(<<"-", "r", "w", "-", "r", "-", "-", "r", "-", "-">>) = 420
        /\ parse_permissions(<<"-", "r", "w", "x", "r", "w", "x", "r", "w", "x">>) = 511

\* the field "drwxr-xr-x" has been parsed
C16_Witness ==
    /\ PermString(perm_in) = <<"d", "r", "w", "x", "r", "-", "x", "r", "-", "x">>
    /\ perm_out = <<16877>>

\* C17: identifiers are handed out in strictly increasing order from 2:
\* the inodes a request adds carry exactly the identifiers from the
\* counter before it up to the counter after it, the counter never goes
\* back, every identifier in use is below it, and 1 is the root's alone;
\* so an identifier that unlink or rmdir released is never given to a
\* later inode.
C17_IdentifiersNeverReused ==
    /\ next_inode = 2
    /\ [](/\ next_inode >= 2
          /\ \A ino \in DOMAIN inodes :
                /\ ino < next_inode
                /\ inodes[ino].ino = ino
                /\ ino = ROOT_INODE <=> inodes[ino].ftp_path = Slash)
    /\ [][ /\ next_inode' >= next_inode
           /\ (DOMAIN inodes') \ (DOMAIN inodes) = next_inode..(next_inode' - 1) ]_vars

\* an identifier has been released and every inode made since carries a
\* greater one
C17_Witness ==
    \E gone \in 2..(next_inode - 1) :
        /\ gone \notin DOMAIN inodes
        /\ \E ino \in DOMAIN inodes : ino > gone
        /\ last.req.op \in {"lookup", "create", "mkdir"} /\ last.reply = OK
        /\ last.attr.ino > gone

\* the attribute-cache entry of an identifier is younger than ATTR_CACHE_TTL
Fresh(ino) == ino \in DOMAIN attr_cache /\ attr_cache[ino].age < ATTR_CACHE_TTL

\* C18: getattr of an identifier the inode table does not hold replies
\* ENOENT; an attribute-cache entry younger than 120 s is replied as it is,
\* with no remote call and no change of state; a directory never causes a
\* remote call; a regular file causes one only when it has no entry
\* younger than 120 s, and the attributes replied after it are the entry
\* the attribute cache then holds, with the size the server gave.
C18_GetattrRefresh ==
    ~blocked =>
        \A ino \in 1..(MaxIno + 1), later \in BOOLEAN, g \in ProbeNet :
            LET r == getattr(St, ino, later, g[1], g[2])
                probed == get_ftp_file_info(St, inodes[ino].ftp_path, g[1], g[2])
            IN  /\ ino \notin DOMAIN inodes => (r.reply = ENOENT /\ r.s = St)
                /\ Fresh(ino) => r = Entry(St, attr_cache[ino].attr)
                /\ (ino \in DOMAIN inodes /\ inodes[ino].attr.kind = Directory)
                   => (r.reply = OK /\ r.s.calls = << >>)
                /\ (ino \in DOMAIN inodes /\ r.s.calls # << >>)
                   => /\ inodes[ino].attr.kind = RegularFile
                      /\ ~Fresh(ino)
                      /\ r.reply = OK
                      /\ r.s.attr_cache[ino] = AttrCacheEntry(r.attr)
                      /\ probed.ok => r.attr.size = probed.info.size

\* a getattr of a regular file whose entry had aged out asked the server
\* and replied, and cached, a size the inode table does not have
C18_Witness ==
    /\ last.req.op = "getattr" /\ last.reply = OK
    /\ last.calls # << >>
    /\ last.req.ino \in DOMAIN inodes
    /\ last.attr.size # inodes[last.req.ino].attr.size
    /\ attr_cache[last.req.ino] = AttrCacheEntry(last.attr)

\* the handlers that look their identifier (or their parent's) up in the
\* inode table before anything else all reply code for it
TableReplies(ino, names, code) ==
    /\ \A g \in ProbeNet : getattr(St, ino, TRUE, g[1], g[2]).reply = code
    /\ \A l \in ListNet : readdir(St, ino, 0, 1, l[1], l[2], l[3]).reply = code
    /\ \A net \in BOOLEAN :
          /\ read(St, ino, 0, 1, net).reply = code
          /\ \A name \in names :
                /\ lookup(St, ino, name, net, net, net, "ok", net).reply = code
                /\ create(St, ino, name, 33188, net).reply = code
                /\ unlink(St, ino, name, net, "ok", net).reply = code
                /\ mkdir(St, ino, name, 493, net).reply = code
                /\ rmdir(St, ino, name, net).reply = code
                /\ rename(St, ino, name, ROOT_INODE, <<"b">>, net).reply = code
                /\ rename(St, ROOT_INODE, <<"b">>, ino, name, net).reply = code
    /\ \A fh \in 0..(MaxFh + 1) : write(St, ino, fh, 0, <<1>>).reply = code

\* read and write on a directory reply EISDIR, readdir on anything else
\* replies ENOTDIR
KindReplies(ino) ==
    IF inodes[ino].attr.kind = Directory
    THEN /\ \A net \in BOOLEAN : read(St, ino, 0, 1, net).reply = EISDIR
         /\ \A fh \in 0..(MaxFh + 1) : write(St, ino, fh, 0, <<1>>).reply = EISDIR
    ELSE \A l \in ListNet : readdir(St, ino, 0, 1, l[1], l[2], l[3]).reply = ENOTDIR

SampleFlags == { mode + high : mode \in 0..3, high \in {0, 1024, 32768} }

\* C20: open replies a handle no earlier open replied: the counter starts
\* at 1, never goes back, is above every handle in use, and open replies
\* its value and moves it on by one.  The record filed under the new handle
\* owns the identifier opened and carries an empty write buffer that is not
\* dirty exactly when the low two bits of the flags are not both zero;
\* otherwise it carries none.  Nothing else changes.
C20_OpenAllocatesHandle ==
    /\ next_fh = 1
    /\ [](/\ \A fh \in DOMAIN open_files : fh < next_fh
          /\ \A ino \in 1..(MaxIno + 1), flags \in SampleFlags :
                LET r == open(St, ino, flags)
                    write_buffer == IF flags % 4 # 0 THEN WriteBuffer(<<>>, FALSE)
                                    ELSE NoWriteBuffer
                IN  /\ r.reply = OK
                    /\ r.fh = next_fh
                    /\ r.fh \notin DOMAIN open_files
                    /\ r.s = [St EXCEPT !.next_fh = next_fh + 1,
                                        !.open_files = Put(open_files, next_fh,
                                                           FileHandle(ino, write_buffer))])
    /\ [][next_fh' >= next_fh]_vars

\* the first open, with O_RDWR, was replied handle 1, which carries an
\* empty write buffer that is not dirty
C20_Witness ==
    /\ last.req.op = "open" /\ last.reply = OK
    /\ last.req.size = 2
    /\ last.fh = 1
    /\ open_files[1] = FileHandle(last.req.ino, WriteBuffer(<<>>, FALSE))
    /\ next_fh = 2

\* the table mutexes of FtpFs
TableLocks ==
    {"inodes", "path_to_inode", "attr_cache", "dir_cache", "read_cache", "open_files"}

\* C21: no table lock spans a remote call: around every remote call a
\* request makes, the guard of none of the six table mutexes is alive
\* (only that of the connection).
C21_NoLockSpansRemoteCall ==
    \A k \in 1..Len(last.calls) : last.calls[k].held \cap TableLocks = {}

\* the directory-cache entry of a remote path is younger than DIR_CACHE_TTL
FreshListing(path) == path \in DOMAIN dir_cache /\ dir_cache[path].age < DIR_CACHE_TTL

\* C22: with no transport failure, and with a directory-cache entry
\* younger than 60 s for the parent's path, two lookup(parent, name) calls,
\* one after the other, for a name that is not transient and that the
\* server holds make at most one remote call between them.
C22_TwoLookupsOneRemote ==
    (~blocked /\ faulty = 0) =>
        \A parent \in DOMAIN inodes, name \in Names :
            (/\ ~is_temp_file(name)
             /\ FreshListing(inodes[parent].ftp_path)
             /\ ChildPath(inodes[parent].ftp_path, name) \in DOMAIN ftp)
            => LET Second(first) == lookup(first.s, parent, name, TRUE, TRUE, TRUE, "ok", TRUE)
               IN  Len(Second(lookup(St, parent, name, TRUE, TRUE, TRUE, "ok", TRUE)).s.calls)
                   <= 1

\* the remote paths a listing may be asked for: those of the server, those
\* of the inodes, and one neither has
ListedPaths ==
    (DOMAIN ftp) \cup { inodes[i].ftp_path : i \in DOMAIN inodes } \cup { <<"/", "b">> }

Named(calls, fn) == { k \in 1..Len(calls) : calls[k].fn = fn }

\* C23: one call of list_ftp_directory_cached makes no remote call but
\* list_dir and reconnect, at most two list_dir and at most one reconnect;
\* a reconnect is the second call, after a list_dir that failed; after a
\* reconnect that failed no list_dir follows; and when the call returns an
\* error (the retry or the reconnect failed) the directory cache is as it
\* was.
C23_ListRetry ==
    ~blocked =>
        \A path \in ListedPaths, net1 \in BOOLEAN, net_reconnect \in BOOLEAN, net2 \in BOOLEAN :
            LET Holds(r, calls) ==
                    /\ \A k \in 1..Len(calls) : calls[k].fn \in {"list_dir", "reconnect"}
                    /\ Cardinality(Named(calls, "list_dir")) <= 2
                    /\ Cardinality(Named(calls, "reconnect")) <= 1
                    /\ \A k \in Named(calls, "reconnect") :
                          /\ k = 2
                          /\ calls[1].fn = "list_dir" /\ ~calls[1].ok
                          /\ ~calls[k].ok => (Len(calls) = 2 /\ ~r.ok)
                    /\ (Len(calls) = 3 /\ ~calls[3].ok) => ~r.ok
                    /\ ~r.ok => r.s.dir_cache = dir_cache
                    /\ r.ok => (calls = << >> \/ calls[Len(calls)].ok)
                Called(r) == Holds(r, r.s.calls)
            IN  Called(list_ftp_directory_cached(St, path, net1, net_reconnect, net2))

\* a readdir listed, reconnected and listed again in vain: it replied EIO
\* and the directory cache has no entry for the directory
C23_Witness ==
    /\ last.req.op = "readdir" /\ last.reply = EIO
    /\ Len(last.calls) = 3
    /\ last.calls[1].fn = "list_dir" /\ ~last.calls[1].ok
    /\ last.calls[2].fn = "reconnect" /\ last.calls[2].ok
    /\ last.calls[3].fn = "list_dir" /\ ~last.calls[3].ok
    /\ inodes[last.req.ino].ftp_path \notin DOMAIN dir_cache

\* the remote calls of a request other than list_dir and the reconnect
\* that goes with it
Single(calls) == { k \in 1..Len(calls) : calls[k].fn \notin {"list_dir", "reconnect"} }

\* C24: a request makes each remote call other than list_dir (size,
\* is_dir, retrieve, store, delete, mkdir, rmdir, rename) at most once,
\* reconnects only after a list_dir, and replies EIO whenever one of those
\* calls failed.
C24_RemoteFailureIsEIO ==
    /\ \A k \in Single(last.calls), j \in Single(last.calls) :
          last.calls[k].fn = last.calls[j].fn => k = j
    /\ \A k \in Named(last.calls, "reconnect") :
          k > 1 /\ last.calls[k - 1].fn = "list_dir"
    /\ \A k \in Single(last.calls) : ~last.calls[k].ok => last.reply = EIO

C26_SyncInvalidatesParentListing ==
    (/\ faulty = 0
     /\ last.req.op \in SyncOps /\ last.reply = OK
     /\ Stores(last.calls) # {}
     /\ last.req.ino \in DOMAIN inodes)
    => DirOf(inodes[last.req.ino].ftp_path) \notin DOMAIN dir_cache

\* C27: when the store of a flush, fsync or release fails, the request
\* replies EIO and the handle table (so the buffer, its bytes and its dirty
\* flag), the inode table, the attribute cache, the directory cache and
\* the read cache are as before the request.
C27_FailedStoreChangesNothing ==
    ~blocked =>
        \A fh \in DOMAIN open_files, net \in BOOLEAN :
            LET Holds(r) ==
                    (\E k \in Stores(r.s.calls) : ~r.s.calls[k].ok)
                    => /\ Dirty(fh)
                       /\ r.reply = EIO
                       /\ r.s.open_files = open_files
                       /\ r.s.inodes = inodes
                       /\ r.s.attr_cache = attr_cache
                       /\ r.s.dir_cache = dir_cache
                       /\ r.s.read_cache = read_cache
            IN  /\ Holds(flush(St, fh, net))
                /\ Holds(fsync(St, fh, net))
                /\ Holds(release(St, open_files[fh].ino, fh, net))

\* the store of a flush has failed: the flush was replied EIO, the buffer
\* is dirty and holds its byte, and the attribute cache has the size the
\* file had before
C27_Witness ==
    /\ last.req.op = "flush" /\ last.reply = EIO
    /\ Stores(last.calls) # {} /\ ~last.calls[1].ok
    /\ Dirty(last.req.fh)
    /\ open_files[last.req.fh].write_buffer.data # << >>
    /\ last.req.ino \in DOMAIN attr_cache
    /\ attr_cache[last.req.ino].attr.size # Len(open_files[last.req.fh].write_buffer.data)

\* C28: once release(id, h) has been replied, h is not in the handle
\* table, and the read cache holds no entry for id unless a handle that
\* remains references id.
C28_ReleaseRemovesHandle ==
    last.req.op = "release" =>
        /\ last.req.fh \notin DOMAIN open_files
        /\ (\A h \in DOMAIN open_files : open_files[h].ino # last.req.ino)
           => last.req.ino \notin DOMAIN read_cache

\* C29: with no transport failure, the write buffer of every open handle
\* that is not dirty holds the bytes the server holds for the file the
\* handle was opened on.
C29_CleanBufferIsRemoteBody ==
    faulty = 0 =>
        \A fh \in DOMAIN open_files :
            (/\ open_files[fh].write_buffer.some
             /\ ~open_files[fh].write_buffer.dirty
             /\ open_files[fh].ino \in DOMAIN inodes
             /\ IsRemoteFile(ftp, inodes[open_files[fh].ino].ftp_path))
            => open_files[fh].write_buffer.data = ftp[inodes[open_files[fh].ino].ftp_path].data

\* C30: with no transport failure, every attribute snapshot in the inode
\* table and in the attribute cache has block count = ceil(size / 512).
C30_BlocksMatchSize ==
    faulty = 0 =>
        /\ \A ino \in DOMAIN inodes : inodes[ino].attr.blocks = Blocks(inodes[ino].attr.size)
        /\ \A ino \in DOMAIN attr_cache :
              attr_cache[ino].attr.blocks = Blocks(attr_cache[ino].attr.size)

\* C31: with no transport failure, the mode of every attribute snapshot in
\* the inode table and in the attribute cache has no bit outside the low
\* nine (it is at most 0o777).
C31_ModeWithinNineBits ==
    faulty = 0 =>
        /\ \A ino \in DOMAIN inodes : inodes[ino].attr.perm \in 0..511
        /\ \A ino \in DOMAIN attr_cache : attr_cache[ino].attr.perm \in 0..511

\* C32: when a write on a handle, for the identifier the handle was opened
\* on, is replied its byte count, the read cache holds for that identifier
\* the whole write buffer of the handle, and a read of the identifier at
\* any offset, with the server reachable or not, is replied the slice of
\* the buffer and makes no remote call.
C32_ReadAfterWrite ==
    \A fh \in DOMAIN open_files, offset \in 0..MaxLen, data \in Datas :
        LET ino == open_files[fh].ino
            Served(buffer, off, size, r) ==
                /\ r.reply = OK
                /\ r.s.calls = << >>
                /\ r.data = IF off >= Len(buffer) THEN << >>
                            ELSE Slice(buffer, off, Min(off + size, Len(buffer)))
            Holds(w) ==
                w.reply = OK =>
                    /\ ino \in DOMAIN w.s.read_cache
                    /\ w.s.read_cache[ino] = w.s.open_files[fh].write_buffer.data
                    /\ w.s.calls = << >>
                    /\ w.s.ftp = ftp
                    /\ \A off \in 0..MaxLen, size \in 1..MaxLen, net \in BOOLEAN :
                           Served(w.s.read_cache[ino], off, size,
                                  read(w.s, ino, off, size, net))
        IN  offset + Len(data) <= MaxLen => Holds(write(St, ino, fh, offset, data))

\* a write has just been replied: the read cache of its identifier holds
\* the buffer, two bytes with the second one written over a gap, and the
\* server still holds another body for the file
C32_Witness ==
    /\ last.req.op = "write" /\ last.reply = OK
    /\ last.req.offset = 1
    /\ last.req.ino \in DOMAIN read_cache
    /\ read_cache[last.req.ino] = open_files[last.req.fh].write_buffer.data
    /\ read_cache[last.req.ino] = << 0, 1 >>
    /\ ftp[inodes[last.req.ino].ftp_path].data # read_cache[last.req.ino]

C35_InodeTree ==
    faulty = 0 =>
        LET Up(S) == S \cup { inodes[i].parent : i \in S \cap DOMAIN inodes }
            Above(i) == Up(Up(Up({i})))
        IN  /\ ROOT_INODE \in DOMAIN inodes
            /\ inodes[ROOT_INODE].parent = ROOT_INODE
            /\ \A i \in DOMAIN inodes \ {ROOT_INODE} :
                   /\ inodes[i].parent \in DOMAIN inodes
                   /\ inodes[i].parent # i
                   /\ ROOT_INODE \in Above(i)

\* C36: with no transport failure, no request leaves the session inside a
\* handler that waits for a lock and never replies.
C36_NoHandlerWaitsForEver ==
    faulty = 0 => ~blocked

\* C37: when the remote call of an unlink, rmdir or rename fails and the
\* request is replied EIO, the inode table, the path map, the attribute
\* cache and the read cache are as they were before the request.  The
\* requests are those the kernel hands over (unlink of what it does not know
\* as a directory, rmdir of what it does not know as a file) in a state
\* that no transport failure has led to.
C37_FailedRemovalChangesNothing ==
    faulty = 0 =>
        \A parent \in Parents \cap DOMAIN inodes, name \in Names :
            LET path == ChildPath(inodes[parent].ftp_path, name)
                Is(kind) ==
                    (path \in DOMAIN path_to_inode /\ path_to_inode[path] \in DOMAIN inodes)
                    => inodes[path_to_inode[path]].attr.kind = kind
                Failed(r, fn) ==
                    /\ r.reply = EIO
                    /\ \E k \in 1..Len(r.s.calls) : r.s.calls[k].fn = fn /\ ~r.s.calls[k].ok
                Holds(r, fn) ==
                    Failed(r, fn) =>
                        /\ r.s.inodes = inodes
                        /\ r.s.path_to_inode = path_to_inode
                        /\ r.s.attr_cache = attr_cache
                        /\ r.s.read_cache = read_cache
            IN  /\ Is(RegularFile) =>
                       \A n \in UnlinkNet :
                           Holds(unlink(St, parent, name, n[1], n[2], n[3]), "delete")
                /\ Is(Directory) =>
                       \A net \in BOOLEAN : Holds(rmdir(St, parent, name, net), "rmdir")
                /\ \A net \in BOOLEAN, newparent \in Parents, newname \in Names :
                       Holds(rename(St, parent, name, newparent, newname, net), "rename")

\* C38: requests reach the handlers one at a time, so two lookups, or a
\* lookup and a readdir, that are outstanding together for a path without
\* identifier are handled one after the other.  When both are replied, the
\* first one allocates one identifier for the path, the second one
\* allocates none for it, both replies carry that identifier, and the
\* inode table holds one record with that path, the one the path map
\* names.
C38_OneIdentifierPerPath ==
    \A parent \in Parents \cap DOMAIN inodes, name \in Names,
       l1 \in { <<TRUE, TRUE, TRUE>>, <<FALSE, TRUE, TRUE>> },
       l2 \in { <<TRUE, TRUE, TRUE>>, <<FALSE, TRUE, TRUE>> } :
        LET path == ChildPath(inodes[parent].ftp_path, name)
            Records(s) == { i \in DOMAIN s.inodes : s.inodes[i].ftp_path = path }
            Carried(r) == { r.data[k].ino : k \in { j \in 1..Len(r.data) : r.data[j].name = name } }
            One(s, ino) ==
                /\ path \in DOMAIN s.path_to_inode
                /\ s.path_to_inode[path] = ino
                /\ Records(s) = Records(St) \cup {ino}
            LookupLookup(r1, r2) ==
                (r1.reply = OK /\ r2.reply = OK) =>
                    /\ r1.attr.ino = next_inode
                    /\ r1.s.next_inode = next_inode + 1
                    /\ r2.attr.ino = r1.attr.ino
                    /\ r2.s.next_inode = r1.s.next_inode
                    /\ One(r2.s, r1.attr.ino)
            LookupReaddir(r1, r2) ==
                (r1.reply = OK /\ r2.reply = OK) =>
                    /\ Carried(r2) \subseteq {r1.attr.ino}
                    /\ One(r2.s, r1.attr.ino)
            ReaddirLookup(r1, r2) ==
                (r1.reply = OK /\ r2.reply = OK) =>
                    /\ Carried(r1) \subseteq {r2.attr.ino}
                    /\ Carried(r1) # {} => r2.s.next_inode = r1.s.next_inode
                    /\ One(r2.s, r2.attr.ino)
            First(r1) ==
                /\ LookupLookup(r1, lookup(r1.s, parent, name, l2[1], l2[2], l2[3], "ok", TRUE))
                /\ LookupReaddir(r1, readdir(r1.s, parent, 0, MaxIno + 2, l2[1], l2[2], l2[3]))
            Then(r1) ==
                ReaddirLookup(r1, lookup(r1.s, parent, name, l2[1], l2[2], l2[3], "ok", TRUE))
        IN  path \notin DOMAIN path_to_inode =>
                /\ First(lookup(St, parent, name, l1[1], l1[2], l1[3], "ok", TRUE))
                /\ Then(readdir(St, parent, 0, MaxIno + 2, l1[1], l1[2], l1[3]))

\* identifier 2 has been given to /b, the server holds /a, which has no
\* identifier, a lookup of a is replied identifier 3, and a lookup and a
\* readdir handled after it carry 3 for a
C38_Witness ==
    /\ << "/", "a" >> \notin DOMAIN path_to_inode
    /\ << "/", "b" >> \in DOMAIN path_to_inode
    /\ next_inode = 3
    /\ LET Carries(r) == \E k \in 1..Len(r.data) : r.data[k].name = <<"a">> /\ r.data[k].ino = 3
           Again(r1) ==
               /\ r1.reply = OK /\ r1.attr.ino = 3
               /\ lookup(r1.s, 1, <<"a">>, TRUE, TRUE, TRUE, "ok", TRUE).attr.ino = 3
               /\ Carries(readdir(r1.s, 1, 0, MaxIno + 2, TRUE, TRUE, TRUE))
       IN  Again(lookup(St, 1, <<"a">>, TRUE, TRUE, TRUE, "ok", TRUE))

\* C39: with no transport failure, for a handle opened with write intent
\* on a file the server holds with body B and not written yet, a write of
\* D at off followed by a flush that is replied OK leaves the server with
\* B overlaid with D at off: the bytes of B outside the written range are
\* neither zeroed nor cut off.
C39_PartialOverwriteKeepsRest ==
    faulty = 0 =>
        \A fh \in DOMAIN open_files, offset \in 0..MaxLen, data \in Datas :
            LET ino == open_files[fh].ino
                Overlaid(path, f) ==
                    f.reply = OK => f.s.ftp[path].data = Overwrite(ftp[path].data, offset, data)
                Flushed(path, w) == w.reply = OK => Overlaid(path, flush(w.s, fh, TRUE))
                Holds(path) ==
                    IsRemoteFile(ftp, path) => Flushed(path, write(St, ino, fh, offset, data))
            IN  (/\ offset + Len(data) <= MaxLen
                 /\ open_files[fh].write_buffer.some
                 /\ ~open_files[fh].write_buffer.dirty
                 /\ ino \in DOMAIN inodes)
                => Holds(inodes[ino].ftp_path)

\* C40: with no transport failure, when the buffer of a handle on
\* identifier I has been written and stored, so that the server holds its
\* L > 0 bytes for the file of I (the last of them a byte a write carried), a lookup of the name of I and a getattr of I,
\* with the server reachable, are replied size L, whether the entry of I
\* in the attribute cache is fresh or has expired.
C40_SizeAfterSync ==
    faulty = 0 =>
        \A fh \in DOMAIN open_files :
            LET ino == open_files[fh].ino
                buffer == open_files[fh].write_buffer.data
                Sized(r) == r.reply = OK /\ r.attr.ino = ino /\ r.attr.size = Len(buffer)
                Holds(inode) ==
                    (IsRemoteFile(ftp, inode.ftp_path) /\ ftp[inode.ftp_path].data = buffer)
                    => /\ Sized(lookup(St, inode.parent, inode.name, TRUE, TRUE, TRUE, "ok", TRUE))
                       /\ \A later \in BOOLEAN : Sized(getattr(St, ino, later, "ok", TRUE))
            IN  (/\ Dirty(fh)
                 /\ buffer # << >>
                 /\ buffer[Len(buffer)] \in Bytes
                 /\ ino \in DOMAIN inodes)
                => Holds(inodes[ino])

====
